---- MODULE Spec2Model ----
(***************************************************************************)
(* A model of the URL / article extraction engine of googlealerts-analysis *)
(* (url_utils.py, gmail_fetcher.py).                                       *)
(*                                                                         *)
(* A Python str is modelled as a sequence of one-character strings, so     *)
(* that substring search, regular-expression matching and percent-decoding *)
(* are computed character by character as the code computes them.          *)
(***************************************************************************)
EXTENDS Integers, Sequences, FiniteSets, TLC

VARIABLES
    \* ---- url_utils.py called on its own (as the tests call it) ----
    url,        \* the argument of extract_actual_url / is_excluded_domain
    req,        \* how url was composed: the wrappers around a destination
    ustep,      \* "start" | "checked" | "resolved" | "filtered" | "twice"
    resolved,   \* extract_actual_url(url)
    resolved2,  \* extract_actual_url(extract_actual_url(url))
    exclDone,   \* is_excluded_domain(url) has been called
    excl,       \* its result
    exclResDone,\* is_excluded_domain(resolved) has been called
    exclRes,    \* its result
    \* ---- GmailAlertFetcher._extract_alert_info ----
    body,       \* argument: the e-mail body
    subject,    \* argument: the subject line
    alert_type, \* argument: "google" | "scholar"
    pc,         \* "start" before the call | "done" once it has returned
    alert_query,\* local: the query derived from the subject
    urls,       \* local: URL_PATTERN.findall(body)
    matches,    \* local: LINK_PATTERN.findall(body)
    gate,       \* local: '<a href=' in body
    anchored,   \* local: articles as the anchor loop leaves it
    articles,   \* local: articles as returned
    origin,     \* history: for each article, the loop and index that appended it
    result,     \* the returned dictionary
    \* ---- list_articles.py ----
    google_file,    \* the Google Alerts report as it is on disk
    scholar_file,   \* the Scholar Alerts report as it is on disk
    args,           \* the parsed command line
    lstep,          \* "start" | "google" | "scholar" | "formatted" | "exited"
    google_parsed,  \* parse_report_json(google_file, 'google_alerts')
    scholar_parsed, \* parse_report_json(scholar_file, 'scholar_alerts')
    formatted,      \* format_article_list on the parsed articles
    exited,         \* main()
    passed_articles, \* the list passed to format_article_list, after the call
    sort_keys,      \* get_date_for_sorting of each date a report may carry
    \* ---- analyze_scholar_alerts.py ----
    fetched,        \* the alerts fetch_scholar_alerts returned to analyze
    llm,            \* for each alert, what the categorizer's LLM call gives
    output_format,  \* "markdown" | "json"
    astep,          \* "start" | "analyzed" | "reported"
    analysis_result,\* analyze()
    report,         \* generate_report(analysis_result, output_format)
    \* ---- GmailAlertFetcher: fetch_google_alerts, fetch_scholar_alerts,
    \*      get_alert_statistics ----
    fargs,      \* the method called and its arguments
    now,        \* the dates the successive datetime.now() calls fall on
    mailbox,    \* the Gmail side: the matching messages, how list() pages them
    fstep,      \* "start" | "listing" | "listed" | "done"
    query,      \* local: query / base_query
    messages,   \* local: the ids collected by the pagination loop
    page_token, \* local: <<>> for None, else <<token>>
    iterations, \* local
    calls,      \* history: each list request with the response it got
    fresult     \* what the method returned

uvars == <<url, req, ustep, resolved, resolved2, exclDone, excl, exclResDone, exclRes>>
evars == <<body, subject, alert_type, pc, alert_query, urls, matches, gate, anchored,
           articles, origin, result>>
lvars == <<google_file, scholar_file, args, lstep, google_parsed, scholar_parsed,
           formatted, exited, passed_articles, sort_keys>>
avars == <<fetched, llm, output_format, astep, analysis_result, report>>
fvars == <<fargs, now, mailbox, fstep, query, messages, page_token, iterations, calls, fresult>>
vars == <<uvars, evars, lvars, avars, fvars>>

-----------------------------------------------------------------------------
(* Strings                                                                 *)

Min(a, b) == IF a <= b THEN a ELSE b

SetMin(S) == CHOOSE x \in S : \A y \in S : x <= y
SetMax(S) == CHOOSE x \in S : \A y \in S : x >= y

\* s[i:] and s[:n] of Python, with 1-based i
From(s, i) == SubSeq(s, i, Len(s))
Prefix(s, n) == SubSeq(s, 1, Min(n, Len(s)))

\* p occurs in s at position i
StartsAt(s, p, i) ==
    /\ i >= 1
    /\ i + Len(p) - 1 <= Len(s)
    /\ \A k \in 1..Len(p) : s[i + k - 1] = p[k]

\* str.find(p, from): the least position >= i where p occurs, 0 for Python's -1
Find(s, p, i) ==
    LET hits == {j \in i..(Len(s) - Len(p) + 1) : StartsAt(s, p, j)}
    IN  IF hits = {} THEN 0 ELSE SetMin(hits)

\* p in s
Contains(s, p) == Find(s, p, 1) # 0

\* s.startswith(p)
StartsWith(s, p) == StartsAt(s, p, 1)

\* the last position of the maximal run of characters outside the set stop that
\* starts at position i (a negated character class [^...]+ matched greedily);
\* i - 1 when the run is empty
RunEnd(s, i, stop) ==
    LET ends == {j \in i..Len(s) : s[j] \in stop}
    IN  IF ends = {} THEN Len(s) ELSE SetMin(ends) - 1

UpperCase == <<"A","B","C","D","E","F","G","H","I","J","K","L","M",
               "N","O","P","Q","R","S","T","U","V","W","X","Y","Z">>
LowerCase == <<"a","b","c","d","e","f","g","h","i","j","k","l","m",
               "n","o","p","q","r","s","t","u","v","w","x","y","z">>

\* str.lower() on one character
LowerChar(c) ==
    IF \E k \in 1..26 : UpperCase[k] = c
    THEN LowerCase[CHOOSE k \in 1..26 : UpperCase[k] = c]
    ELSE c

\* str.lower()
Lower(s) == [k \in 1..Len(s) |-> LowerChar(s[k])]

\* Python's \s and str.strip() whitespace
IsSpace(c) == c \in {" ", "\n", "\t", "\r", "\f"}

\* str.lstrip()
LStrip(s) ==
    LET keep == {j \in 1..Len(s) : ~IsSpace(s[j])}
    IN  IF keep = {} THEN <<>> ELSE From(s, SetMin(keep))

\* str.rstrip()
RStrip(s) ==
    LET keep == {j \in 1..Len(s) : ~IsSpace(s[j])}
    IN  IF keep = {} THEN <<>> ELSE SubSeq(s, 1, SetMax(keep))

\* str.strip()
Strip(s) == RStrip(LStrip(s))

\* str.replace(old, new), every non-overlapping occurrence from the left
RECURSIVE Replace(_, _, _)
Replace(s, old, new) ==
    LET i == Find(s, old, 1)
    IN  IF i = 0 THEN s
        ELSE SubSeq(s, 1, i - 1) \o new \o Replace(From(s, i + Len(old)), old, new)

\* the concatenation of a sequence of strings
RECURSIVE Cat(_)
Cat(ss) ==
    IF ss = <<>> THEN <<>>
    ELSE IF Len(ss) = 1 THEN ss[1]
    ELSE LET m == Len(ss) \div 2
         IN  Cat(SubSeq(ss, 1, m)) \o Cat(SubSeq(ss, m + 1, Len(ss)))

-----------------------------------------------------------------------------
(* urllib.parse.unquote                                                    *)

\* the printable ASCII characters, code 32 (space) to 126 (~); the grave accent
\* (code 96), which a TLA+ string cannot hold, is written "GRAVE"
Ascii == <<" ","!","\"","#","$","%","&","'","(",")","*","+",",","-",".","/","0","1","2","3","4","5","6","7","8","9",":",";","<","=",">","?","@","A","B","C","D","E","F","G","H","I","J","K","L","M","N","O","P","Q","R","S","T","U","V","W","X","Y","Z","[","\\","]","^","_","GRAVE","a","b","c","d","e","f","g","h","i","j","k","l","m","n","o","p","q","r","s","t","u","v","w","x","y","z","{","|","}","~">>

HexDigits == <<"0","1","2","3","4","5","6","7","8","9","a","b","c","d","e","f">>

IsHex(c) == \E k \in 1..16 : HexDigits[k] = LowerChar(c)

HexVal(c) == (CHOOSE k \in 1..16 : HexDigits[k] = LowerChar(c)) - 1

\* the character a decoded byte stands for: itself when printable ASCII; a
\* lone byte >= 0x80 decodes (errors='replace') to U+FFFD; a control byte other
\* than tab, LF, CR is kept as one opaque character
ByteChar(code) ==
    IF code >= 32 /\ code <= 126 THEN Ascii[code - 31]
    ELSE IF code >= 128 THEN "U+FFFD"
    ELSE IF code = 9 THEN "\t"
    ELSE IF code = 10 THEN "\n"
    ELSE IF code = 13 THEN "\r"
    ELSE "CTRL"

\* unquote(s): every %XX with two hex digits becomes the character of that
\* byte; a '%' not followed by two hex digits is left as it is (no exception)
unquote(s) ==
    LET Esc(i) == /\ i >= 1 /\ i + 2 <= Len(s)
                  /\ s[i] = "%" /\ IsHex(s[i + 1]) /\ IsHex(s[i + 2])
        out == [i \in 1..Len(s) |->
                   IF Esc(i) THEN <<ByteChar(16 * HexVal(s[i + 1]) + HexVal(s[i + 2]))>>
                   ELSE IF Esc(i - 1) \/ Esc(i - 2) THEN <<>>
                   ELSE <<s[i]>>]
    IN  Cat(out)

-----------------------------------------------------------------------------
(* url_utils.py                                                            *)

\* a slip: the redirect hosts' own token is missing from the list
EXCLUDE_DOMAINS_NoGoogle ==
    << <<"f","a","c","e","b","o","o","k">>, <<"t","w","i","t","t","e","r">>, <<"l","i","n","k","e","d","i","n">>, <<"y","o","u","t","u","b","e">> >>

\* EXCLUDE_DOMAINS = ['google', 'facebook', 'twitter', 'linkedin', 'youtube']
EXCLUDE_DOMAINS ==
    << <<"g","o","o","g","l","e">>, <<"f","a","c","e","b","o","o","k">>, <<"t","w","i","t","t","e","r">>, <<"l","i","n","k","e","d","i","n">>, <<"y","o","u","t","u","b","e">> >>

\* google_params = ['&ct=', '&sa=', '&rct=', '&cd=', '&usg=', '&ved=', '&q=']
google_params ==
    << <<"&","c","t","=">>, <<"&","s","a","=">>, <<"&","r","c","t","=">>, <<"&","c","d","=">>, <<"&","u","s","g","=">>, <<"&","v","e","d","=">>, <<"&","q","=">> >>

\* a slip: the guard looks for a url parameter instead of the redirect hosts
IsRedirectUrl_AnyUrlParam(u) == Contains(u, <<"u","r","l","=">>)

\* 'google.com/url' in url or 'scholar.google' in url
IsRedirectUrl(u) ==
    Contains(u, <<"g","o","o","g","l","e",".","c","o","m","/","u","r","l">>) \/ Contains(u, <<"s","c","h","o","l","a","r",".","g","o","o","g","l","e">>)

\* re.search(r'[?&]url=([^&]+(?:&[^=&]+)*)', url) finds a match: somewhere a
\* '?' or '&', then 'url=', then at least one character other than '&'
UrlParamSearch(u) ==
    \E i \in 1..Len(u) :
        /\ u[i] \in {"?", "&"}
        /\ StartsAt(u, <<"u","r","l","=">>, i + 1)
        /\ i + 5 <= Len(u)
        /\ u[i + 5] # "&"

\* url_part = url[url.find('url=') + 4:], from the FIRST 'url=' of the string
UrlPart(u) == From(u, Find(u, <<"u","r","l","=">>, 1) + 4)

\* end_pos: the least position of a google_params marker in url_part, or its
\* length (as a count of the characters kept)
EndPos(url_part) ==
    LET hits == {Find(url_part, google_params[k], 1) : k \in 1..Len(google_params)}
                    \ {0}
    IN  IF hits = {} THEN Len(url_part) ELSE SetMin(hits) - 1

\* str.split(sep)
RECURSIVE Split(_, _)
Split(s, sep) ==
    LET i == Find(s, sep, 1)
    IN  IF i = 0 THEN <<s>>
        ELSE <<SubSeq(s, 1, i - 1)>> \o Split(From(s, i + Len(sep)), sep)

\* urlsplit: the leading C0-control-or-space characters are stripped and the
\* characters tab, CR, LF removed everywhere
RemoveUnsafe(u) ==
    LET Safe(c) == c \notin {"\t", "\r", "\n"}
    IN  SelectSeq(LStrip(u), Safe)

IsAlpha(c) == \E k \in 1..26 : UpperCase[k] = c \/ LowerCase[k] = c

SchemeChars ==
    {UpperCase[k] : k \in 1..26} \cup {LowerCase[k] : k \in 1..26}
        \cup {"0","1","2","3","4","5","6","7","8","9","+","-","."}

\* urlsplit: what follows the scheme and its ':' (the whole string when the
\* text before the first ':' is not a scheme)
AfterScheme(u) ==
    LET i == Find(u, <<":">>, 1)
    IN  IF i > 1 /\ IsAlpha(u[1]) /\ \A k \in 1..(i - 1) : u[k] \in SchemeChars
        THEN From(u, i + 1)
        ELSE u

\* urlsplit: the netloc, between '//' and the first of '/', '?', '#'
NetlocOf(u) ==
    LET r == AfterScheme(RemoveUnsafe(u))
    IN  IF StartsWith(r, <<"/", "/">>)
        THEN SubSeq(r, 3, RunEnd(r, 3, {"/", "?", "#"}))
        ELSE <<>>

\* urlsplit raises ValueError("Invalid IPv6 URL"): one bracket without the other
UrlsplitRaises(u) ==
    LET n == NetlocOf(u)
    IN  Contains(n, <<"[">>) # Contains(n, <<"]">>)

\* urlparse(url).query: after the netloc, the fragment is cut at the first '#'
\* and the query is what follows the first '?' of the rest
QueryOf(u) ==
    LET r == AfterScheme(RemoveUnsafe(u))
        n == IF StartsWith(r, <<"/", "/">>)
             THEN RunEnd(r, 3, {"/", "?", "#"}) + 1 ELSE 1
        p == From(r, n)
        h == Find(p, <<"#">>, 1)
        nofrag == IF h = 0 THEN p ELSE SubSeq(p, 1, h - 1)
        q == Find(nofrag, <<"?">>, 1)
    IN  IF q = 0 THEN <<>> ELSE From(nofrag, q + 1)

\* parse_qs(query)[key] (the empty list when the key is absent): the fields are
\* split on '&'; a field without '=' or with an empty value is dropped; in
\* name and value '+' becomes a space and %XX escapes are decoded
RECURSIVE QsValues(_, _)
QsValues(fields, key) ==
    IF fields = <<>> THEN <<>>
    ELSE LET f == Head(fields)
             e == Find(f, <<"=">>, 1)
             name == unquote(Replace(SubSeq(f, 1, e - 1), <<"+">>, <<" ">>))
             value == unquote(Replace(From(f, e + 1), <<"+">>, <<" ">>))
         IN  IF e # 0 /\ e < Len(f) /\ name = key
             THEN <<value>> \o QsValues(Tail(fields), key)
             ELSE QsValues(Tail(fields), key)

parse_qs(qs, key) ==
    IF qs = <<>> THEN <<>> ELSE QsValues(Split(qs, <<"&">>), key)

\* the fallback of extract_actual_url: urlparse, parse_qs, params['url'][0]
ParseQsFallback(u) ==
    IF UrlsplitRaises(u) THEN u
    ELSE LET vals == parse_qs(QueryOf(u), <<"u","r","l">>)
         IN  IF vals # <<>> THEN unquote(vals[1]) ELSE u

\* a slip: parse_qs tried first, the scan for 'url=' only when it finds no url
extract_actual_url_StructuredFirst(u) ==
    IF ~IsRedirectUrl(u) THEN u
    ELSE IF ~UrlsplitRaises(u) /\ parse_qs(QueryOf(u), <<"u","r","l">>) # <<>>
    THEN unquote(parse_qs(QueryOf(u), <<"u","r","l">>)[1])
    ELSE IF UrlParamSearch(u)
    THEN unquote(Prefix(UrlPart(u), EndPos(UrlPart(u))))
    ELSE u

\* extract_actual_url(url)
extract_actual_url(u) ==
    IF ~IsRedirectUrl(u) THEN u
    ELSE IF UrlParamSearch(u)
    THEN LET url_part == UrlPart(u)
         IN  unquote(Prefix(url_part, EndPos(url_part)))
    ELSE ParseQsFallback(u)

\* a slip: the URL is compared as it is, without .lower()
is_excluded_in_CaseSensitive(u, exclude_domains) ==
    \E k \in 1..Len(exclude_domains) : Contains(u, exclude_domains[k])

\* is_excluded_domain(url, exclude_domains): any(domain in url.lower() ...)
is_excluded_in(u, exclude_domains) ==
    LET url_lower == Lower(u)
    IN  \E k \in 1..Len(exclude_domains) : Contains(url_lower, exclude_domains[k])

\* is_excluded_domain(url) with exclude_domains=None: the default list
is_excluded_domain(u) == is_excluded_in(u, EXCLUDE_DOMAINS)

-----------------------------------------------------------------------------
(* gmail_fetcher.py: the compiled patterns                                 *)

FULL_BODY_PREVIEW == 500

Quotes == {"\"", "'"}

\* URL_PATTERN = r'https?://[^\s<>"\')]+[^\s<>"\'.,;:!?)\]]'
UrlBodyStop == {" ", "\n", "\t", "\r", "\f", "<", ">", "\"", "'", ")"}
UrlLastStop == UrlBodyStop \cup {".", ",", ";", ":", "!", "?", "]"}

\* the position of the last character of the match of URL_PATTERN that starts
\* at position i, 0 when there is none: after the scheme the greedy class runs
\* as far as it can and gives back characters until the last one is in the
\* final class, one character at least staying before it
UrlMatchEnd(s, i) ==
    LET p == IF StartsAt(s, <<"h","t","t","p","s",":","/","/">>, i) THEN i + 8
             ELSE IF StartsAt(s, <<"h","t","t","p",":","/","/">>, i) THEN i + 7
             ELSE 0
    IN  IF p = 0 THEN 0
        ELSE LET r == RunEnd(s, p, UrlBodyStop)
                 last == {k \in (p + 1)..r : s[k] \notin UrlLastStop}
             IN  IF last = {} THEN 0 ELSE SetMax(last)

\* URL_PATTERN.findall(s), scanning from position i: the leftmost match, then
\* the matches after its end
RECURSIVE UrlFindallFrom(_, _)
UrlFindallFrom(s, i) ==
    LET starts == {j \in i..Len(s) : s[j] = "h" /\ UrlMatchEnd(s, j) # 0}
    IN  IF starts = {} THEN <<>>
        ELSE LET j == SetMin(starts)
                 e == UrlMatchEnd(s, j)
             IN  <<SubSeq(s, j, e)>> \o UrlFindallFrom(s, e + 1)

UrlFindall(s) == UrlFindallFrom(s, 1)

NoLink == [href |-> <<>>, content |-> <<>>, end |-> 0]

\* LINK_PATTERN = r'<a[^>]+href=["\']([^"\']+)["\'][^>]*>(.*?)</a>' (DOTALL)
\* with 'href=' taken at position h: a quote, the greedy run of non-quote
\* characters (one at least) and the quote that ends it, the first '>' after
\* it, then the shortest content up to the first '</a>'
LinkWithHrefAt(s, h) ==
    LET v == RunEnd(s, h + 6, Quotes)
        gt == Find(s, <<">">>, v + 2)
        c == IF gt = 0 THEN 0 ELSE Find(s, <<"<","/","a",">">>, gt + 1)
    IN  IF /\ StartsAt(s, <<"h","r","e","f","=">>, h)
           /\ h + 5 <= Len(s)
           /\ s[h + 5] \in Quotes
           /\ v >= h + 6
           /\ v + 1 <= Len(s)
           /\ gt # 0
           /\ c # 0
        THEN [href |-> SubSeq(s, h + 6, v), content |-> SubSeq(s, gt + 1, c - 1),
              end |-> c + 3]
        ELSE NoLink

\* the match of LINK_PATTERN that starts at position i (end = 0: none): after
\* '<a' the greedy [^>]+ takes one character at least and stops before the
\* first '>'; it gives back characters until 'href=' and the rest match, so
\* the last 'href=' of the tag that works is the one taken
LinkMatchAt(s, i) ==
    IF ~StartsAt(s, <<"<","a">>, i) THEN NoLink
    ELSE LET g == RunEnd(s, i + 2, {">"})
             hs == {h \in (i + 3)..(g + 1) : LinkWithHrefAt(s, h).end # 0}
         IN  IF hs = {} THEN NoLink ELSE LinkWithHrefAt(s, SetMax(hs))

\* LINK_PATTERN.findall(s), scanning from position i
RECURSIVE LinkFindallFrom(_, _)
LinkFindallFrom(s, i) ==
    LET starts == {j \in i..Len(s) : s[j] = "<" /\ LinkMatchAt(s, j).end # 0}
    IN  IF starts = {} THEN <<>>
        ELSE LET m == LinkMatchAt(s, SetMin(starts))
             IN  <<[href |-> m.href, content |-> m.content]>>
                     \o LinkFindallFrom(s, m.end + 1)

LinkFindall(s) == LinkFindallFrom(s, 1)

\* TITLE_PATTERN = r'<b>([^<]+)</b>', TITLE_PATTERN.search(content): the
\* leftmost '<b>' followed by one character at least other than '<' and then
\* directly by '</b>'
TitleSearch(c) ==
    LET hits == {i \in 1..Len(c) :
                    /\ StartsAt(c, <<"<","b",">">>, i)
                    /\ RunEnd(c, i + 3, {"<"}) >= i + 3
                    /\ StartsAt(c, <<"<","/","b",">">>, RunEnd(c, i + 3, {"<"}) + 1)}
    IN  IF hits = {} THEN [found |-> FALSE, group |-> <<>>]
        ELSE [found |-> TRUE,
              group |-> SubSeq(c, SetMin(hits) + 3, RunEnd(c, SetMin(hits) + 3, {"<"}))]

\* the position of the '>' that ends the match of HTML_TAG_PATTERN = r'<[^>]+>'
\* starting at position i, 0 when there is none
TagEndAt(s, i) ==
    IF s[i] # "<" THEN 0
    ELSE LET e == RunEnd(s, i + 1, {">"})
         IN  IF e >= i + 1 /\ e + 1 <= Len(s) THEN e + 1 ELSE 0

\* HTML_TAG_PATTERN.sub('', s), scanning from position i
RECURSIVE StripTagsFrom(_, _)
StripTagsFrom(s, i) ==
    LET starts == {j \in i..Len(s) : TagEndAt(s, j) # 0}
    IN  IF starts = {} THEN From(s, i)
        ELSE SubSeq(s, i, SetMin(starts) - 1)
                 \o StripTagsFrom(s, TagEndAt(s, SetMin(starts)) + 1)

StripTags(s) == StripTagsFrom(s, 1)

-----------------------------------------------------------------------------
(* GmailAlertFetcher._extract_alert_info                                   *)

\* alert_query: the channel's prefix is removed wherever it occurs in the
\* subject, when it occurs at all
AlertQuery(subj, type) ==
    IF type = "scholar"
    THEN IF Contains(subj, <<"S","c","h","o","l","a","r"," ","A","l","e","r","t",":"," ">>)
         THEN Replace(subj, <<"S","c","h","o","l","a","r"," ","A","l","e","r","t",":"," ">>, <<>>) ELSE subj
    ELSE IF Contains(subj, <<"G","o","o","g","l","e"," ","A","l","e","r","t"," ","-"," ">>)
         THEN Replace(subj, <<"G","o","o","g","l","e"," ","A","l","e","r","t"," ","-"," ">>, <<>>) ELSE subj

\* one pass of the loop over the anchors: the article appended for the match
\* m, as a list of one or no article
AnchorArticle(m) ==
    LET actual_url == extract_actual_url(m.href)
        title_match == TitleSearch(m.content)
        clean_title == IF title_match.found THEN Strip(title_match.group)
                       ELSE Strip(StripTags(m.content))
    IN  IF StartsWith(actual_url, <<"h","t","t","p">>) /\ ~is_excluded_domain(actual_url)
        THEN IF clean_title # <<>> \/ actual_url # <<>>
             THEN <<[title |-> clean_title, url |-> actual_url, snippet |-> <<>>]>>
             ELSE <<>>
        ELSE <<>>

\* a slip: the fallback loop appends the resolved URL without asking
\* is_excluded_domain
BareArticle_Unfiltered(u) ==
    <<[title |-> <<>>, url |-> extract_actual_url(u), snippet |-> <<>>]>>

\* one pass of the fallback loop over the bare URLs
BareArticle(u) ==
    LET actual_url == extract_actual_url(u)
    IN  IF ~is_excluded_domain(actual_url)
        THEN <<[title |-> <<>>, url |-> actual_url, snippet |-> <<>>]>>
        ELSE <<>>

\* the loops, pass by pass: what each pass appends
AnchorPasses(ms) == [k \in 1..Len(ms) |-> AnchorArticle(ms[k])]
BarePasses(us) == [k \in 1..Len(us) |-> BareArticle(us[k])]

\* what a loop appends: articles.append(...) once per pass that gets there
Appended(passes) == Cat(passes)

\* the pass each appended article is from
AppendedFrom(passes, loop) ==
    Cat([k \in 1..Len(passes) |->
            IF passes[k] = <<>> THEN <<>>
            ELSE <<[loop |-> loop, index |-> k]>>])

-----------------------------------------------------------------------------
(* The URLs the functions of url_utils.py are called with                  *)

MaxWrap == 2      \* redirect wrappers around one destination, at most

HexUpper == <<"0","1","2","3","4","5","6","7","8","9","A","B","C","D","E","F">>

\* the wrapping service's percent-encoding of one character (urllib's quote
\* with safe=''): letters, digits and _ . - ~ stay, anything else is %XX
QuoteChar(c) ==
    IF c \in SchemeChars \ {"+"} \/ c \in {"_", "~"} THEN <<c>>
    ELSE LET code == (CHOOSE k \in 1..Len(Ascii) : Ascii[k] = c) + 31
         IN  <<"%", HexUpper[(code \div 16) + 1], HexUpper[(code % 16) + 1]>>

Quote(s) == Cat([k \in 1..Len(s) |-> QuoteChar(s[k])])

\* the redirect wrappers: host and path, the parameters before the destination,
\* the key that carries it, whether it is percent-encoded, the parameters after
Wrappers == <<
    [host |-> <<"h","t","t","p","s",":","/","/","w","w","w",".","g","o","o","g","l","e",".","c","o","m","/","u","r","l","?">>, pre |-> <<>>,
     key |-> <<"u","r","l","=">>, enc |-> TRUE, post |-> <<"&","c","t","=","g","a">>],
    [host |-> <<"h","t","t","p","s",":","/","/","w","w","w",".","g","o","o","g","l","e",".","c","o","m","/","u","r","l","?">>, pre |-> <<"r","c","t","=","j","&","s","a","=","t","&">>,
     key |-> <<"u","r","l","=">>, enc |-> FALSE, post |-> <<"&","c","t","=","g","a">>],
    [host |-> <<"h","t","t","p","s",":","/","/","s","c","h","o","l","a","r",".","g","o","o","g","l","e",".","c","o","m","/","s","c","h","o","l","a","r","_","u","r","l","?">>, pre |-> <<>>,
     key |-> <<"u","r","l","=">>, enc |-> FALSE, post |-> <<>>],
    [host |-> <<"h","t","t","p","s",":","/","/","s","c","h","o","l","a","r",".","g","o","o","g","l","e",".","c","o","m","/","s","c","h","o","l","a","r","_","u","r","l","?">>, pre |-> <<>>,
     key |-> <<"u","r","l","=">>, enc |-> TRUE, post |-> <<"&","h","l","=","e","n","&","s","a","=","X">>],
    [host |-> <<"h","t","t","p","s",":","/","/","s","c","h","o","l","a","r",".","g","o","o","g","l","e","u","s","e","r","c","o","n","t","e","n","t",".","c","o","m","/","s","c","h","o","l","a","r","?">>,
     pre |-> <<"q","=","c","a","c","h","e",":","a","b","c","&">>,
     key |-> <<"u","r","l","=">>, enc |-> TRUE, post |-> <<>>],
    [host |-> <<"h","t","t","p","s",":","/","/","w","w","w",".","g","o","o","g","l","e",".","c","o","m","/","u","r","l","?">>, pre |-> <<"s","u","r","l","=","1","&">>,
     key |-> <<"u","r","l","=">>, enc |-> TRUE, post |-> <<>>],
    [host |-> <<"h","t","t","p","s",":","/","/","w","w","w",".","g","o","o","g","l","e",".","c","o","m","/","u","r","l","?">>, pre |-> <<>>,
     key |-> <<"%","7","5","r","l","=">>, enc |-> TRUE, post |-> <<"&","c","t","=","g","a">>] >>

\* destinations a wrapper may carry
Dests == {
    <<"h","t","t","p","s",":","/","/","e","x","a","m","p","l","e",".","c","o","m","/","a","r","t","i","c","l","e">>,
    <<"h","t","t","p","s",":","/","/","e","x","a","m","p","l","e",".","c","o","m","/","a","r","t","i","c","l","e","?","i","d","=","1","2","3","&","p","a","r","a","m","=","v","a","l","u","e">>,
    <<"h","t","t","p","s",":","/","/","a","r","x","i","v",".","o","r","g","/","a","b","s","/","2","3","1","2",".","1","2","3","4","5">>,
    <<"h","t","t","p","s",":","/","/","e","x","a","m","p","l","e",".","c","o","m","/","a","%","2","0","b">>,
    <<"h","t","t","p","s",":","/","/","a",".","o","r","g","/","p","?","x","=","1","&","q","=","2">>,
    <<"f","t","p",":","/","/","e","x","a","m","p","l","e",".","c","o","m","/","f","i","l","e">>,
    <<"h","t","t","p","s",":","/","/","e","x","a","m","p","l","e",".","c","o","m","/","1","0","0","%">> }

\* URLs passed as they are
Plain == {
    <<>>,
    <<"h","t","t","p","s",":","/","/","n","a","t","u","r","e",".","c","o","m","/","a","r","t","i","c","l","e","s","/","s","c","i","e","n","c","e","-","1","2","3">>,
    <<"h","t","t","p","s",":","/","/","s","c","i","e","n","c","e","d","i","r","e","c","t",".","c","o","m","/","a","r","t","i","c","l","e","/","x","y","z">>,
    <<"h","t","t","p",":","/","/","w","w","w",".","w","3",".","o","r","g","/","1","9","9","9","/","x","h","t","m","l">>,
    <<"h","t","t","p","s",":","/","/","w","w","w",".","w","3",".","o","r","g","/","2","0","0","0","/","s","v","g">>,
    <<"h","t","t","p","s",":","/","/","w","3",".","o","r","g","/","s","t","a","n","d","a","r","d","s","/">>,
    <<"h","t","t","p","s",":","/","/","w","w","w",".","G","o","o","g","l","e",".","c","o","m","/","A","l","e","r","t","s">>,
    <<"h","t","t","p","s",":","/","/","w","w","w",".","f","a","c","e","b","o","o","k",".","c","o","m","/","s","h","a","r","e">>,
    <<"h","t","t","p","s",":","/","/","T","w","i","t","t","e","r",".","c","o","m","/","i","n","t","e","n","t","/","t","w","e","e","t">>,
    <<"h","t","t","p","s",":","/","/","w","w","w",".","l","i","n","k","e","d","i","n",".","c","o","m","/","s","h","a","r","e">>,
    <<"h","t","t","p","s",":","/","/","e","x","a","m","p","l","e",".","c","o","m","/","w","a","t","c","h","?","s","r","c","=","y","o","u","t","u","b","e">>,
    <<"h","t","t","p","s",":","/","/","e","x","a","m","p","l","e",".","c","o","m","/","p","?","r","e","f","=","s","c","h","o","l","a","r",".","g","o","o","g","l","e","&","u","r","l","=","h","t","t","p","s",":","/","/","o","t","h","e","r",".","o","r","g">>,
    <<"h","t","t","p","s",":","/","/","s","c","h","o","l","a","r",".","g","o","o","g","l","e",".","c","o","m","/","s","c","h","o","l","a","r","?","q","=","s","e","a","r","c","h","+","t","e","r","m","s">>,
    <<"h","t","t","p","s",":","/","/","s","c","h","o","l","a","r",".","g","o","o","g","l","e",".","c","o","m","/","c","i","t","a","t","i","o","n","s","?","u","s","e","r","=","a","b","c","1","2","3">>,
    <<"h","t","t","p","s",":","/","/","w","w","w",".","g","o","o","g","l","e",".","c","o","m","/","u","r","l","?","q","=","h","t","t","p","s",":","/","/","e","x","a","m","p","l","e",".","c","o","m","/","a">>,
    <<"h","t","t","p","s",":","/","/","s","c","h","o","l","a","r",".","g","o","o","g","l","e",".","c","o","m","/","s","c","h","o","l","a","r","?","q","=","a","#","&","u","r","l","=","h","t","t","p","s",":","/","/","o","t","h","e","r",".","o","r","g","/","p">>,
    <<"h","t","t","p","s",":","/","/","s","c","h","o","l","a","r",".","g","o","o","g","l","e",".","c","o","m","/","s","c","h","o","l","a","r","?","q","=","w","h","a","t","?","u","r","l","=","h","t","t","p","s",":","/","/","o","t","h","e","r",".","o","r","g","/","p">>,
    <<"h","t","t","p","s",":","/","/","w","w","w",".","g","o","o","g","l","e",".","c","o","m","/","u","r","l","?","%","7","5","r","l","=","h","t","t","p","s",":","/","/","e","x","a","m","p","l","e",".","c","o","m","/","a">> }

\* one wrapper around a destination
Wrap(w, d) == w.host \o w.pre \o w.key \o (IF w.enc THEN Quote(d) ELSE d) \o w.post

\* the URL of a request: its wrappers, outermost first, around its destination
RECURSIVE Build(_, _)
Build(wraps, d) ==
    IF wraps = <<>> THEN d
    ELSE Wrap(Wrappers[Head(wraps)], Build(Tail(wraps), d))

WrapSeqs == UNION {[1..n -> 1..Len(Wrappers)] : n \in 0..MaxWrap}

Requests ==
    {[wraps |-> ws, dest |-> d] : ws \in WrapSeqs, d \in Dests}
        \cup {[wraps |-> <<>>, dest |-> d] : d \in Plain}

-----------------------------------------------------------------------------
(* url_utils.py called on one URL                                          *)

\* a report file on disk: what it holds and, for a report, its entries
File(kind, results) == [kind |-> kind, results |-> results]

\* the command lines: --format, --show-all, --google-alerts-only,
\* --scholar-alerts-only, --separate with --output
Args(format, show_all, google_only, scholar_only, separate) ==
    [format |-> format, show_all |-> show_all,
     google_alerts_only |-> google_only, scholar_alerts_only |-> scholar_only,
     separate |-> separate]

ListIdle ==
    /\ google_file = File("missing", <<>>) /\ scholar_file = File("missing", <<>>)
    /\ args = Args("text", FALSE, FALSE, FALSE, FALSE)
    /\ lstep = "idle"
    /\ google_parsed = <<>> /\ scholar_parsed = <<>>
    /\ formatted = <<>> /\ exited = <<>>
    /\ passed_articles = <<>>
    /\ sort_keys = <<>>

FetchIdle ==
    /\ fargs = <<>> /\ now = <<>> /\ mailbox = <<>> /\ fstep = "idle"
    /\ query = <<>> /\ messages = <<>> /\ page_token = <<>> /\ iterations = 0
    /\ calls = <<>> /\ fresult = <<>>

AnalyzeIdle ==
    /\ fetched = <<>> /\ llm = <<>> /\ output_format = "markdown"
    /\ astep = "idle" /\ analysis_result = <<>> /\ report = <<>>

ExtractIdle ==
    /\ body = <<>> /\ subject = <<>> /\ alert_type = "google" /\ pc = "idle"
    /\ alert_query = <<>> /\ urls = <<>> /\ matches = <<>> /\ gate = FALSE
    /\ anchored = <<>> /\ articles = <<>> /\ origin = <<>> /\ result = <<>>

InitUrl ==
    /\ req \in Requests
    /\ url = Build(req.wraps, req.dest)
    /\ ustep = "start"
    /\ resolved = <<>> /\ resolved2 = <<>>
    /\ exclDone = FALSE /\ excl = FALSE
    /\ exclResDone = FALSE /\ exclRes = FALSE
    /\ ExtractIdle
    /\ ListIdle
    /\ AnalyzeIdle
    /\ FetchIdle

\* is_excluded_domain(url)
CallIsExcluded ==
    /\ ustep = "start"
    /\ excl' = is_excluded_domain(url)
    /\ exclDone' = TRUE
    /\ ustep' = "checked"
    /\ UNCHANGED <<url, req, resolved, resolved2, exclResDone, exclRes, evars, lvars, avars, fvars>>

\* actual = extract_actual_url(url)
CallExtract ==
    /\ ustep = "checked"
    /\ resolved' = extract_actual_url(url)
    /\ ustep' = "resolved"
    /\ UNCHANGED <<url, req, resolved2, exclDone, excl, exclResDone, exclRes, evars, lvars, avars, fvars>>

\* excluded = is_excluded_domain(actual)
CallIsExcludedResolved ==
    /\ ustep = "resolved"
    /\ exclRes' = is_excluded_domain(resolved)
    /\ exclResDone' = TRUE
    /\ ustep' = "filtered"
    /\ UNCHANGED <<url, req, resolved, resolved2, exclDone, excl, evars, lvars, avars, fvars>>

\* extract_actual_url(actual)
CallExtractAgain ==
    /\ ustep = "filtered"
    /\ resolved2' = extract_actual_url(resolved)
    /\ ustep' = "twice"
    /\ UNCHANGED <<url, req, resolved, exclDone, excl, exclResDone, exclRes, evars, lvars, avars, fvars>>

NextUrl ==
    \/ CallIsExcluded
    \/ CallExtract
    \/ CallIsExcludedResolved
    \/ CallExtractAgain

SpecUrl == InitUrl /\ [][NextUrl]_vars

-----------------------------------------------------------------------------
(* _extract_alert_info called on one e-mail                                *)

MaxSegs == 2      \* pieces of markup or text in one body, at most

\* the pieces a body is made of: anchors as the two alert products write them
\* (redirect-wrapped, percent-encoded, direct), sharing links, bare URLs
Segments == <<
    <<"<","a"," ","h","r","e","f","=","\"","h","t","t","p","s",":","/","/","w","w","w",".","g","o","o","g","l","e",".","c","o","m","/","u","r","l","?","r","c","t","=","j","&","u","r","l","=","h","t","t","p","s",":","/","/","e","x","a","m","p","l","e",".","c","o","m","/","a","&","c","t","=","g","a","\"",">","<","b",">","M","i","n","i","n","g","<","/","b",">"," ","n","e","w","s","<","/","a",">">>,
    <<"<","a"," ","h","r","e","f","=","\"","h","t","t","p","s",":","/","/","s","c","h","o","l","a","r",".","g","o","o","g","l","e",".","c","o","m","/","s","c","h","o","l","a","r","_","u","r","l","?","u","r","l","=","h","t","t","p","s","%","3","A","%","2","F","%","2","F","a","r","x","i","v",".","o","r","g","%","2","F","a","b","s","%","2","F","1","\"",">","\n"," ","D","e","e","p"," ","L","e","a","r","n","i","n","g"," ","\n","<","/","a",">">>,
    <<"<","a"," ","h","r","e","f","=","'","h","t","t","p","s",":","/","/","n","a","t","u","r","e",".","c","o","m","/","x","'",">","<","e","m",">","G","e","o","<","/","e","m",">"," ","d","a","t","a","<","/","a",">">>,
    <<"<","a"," ","h","r","e","f","=","\"","h","t","t","p","s",":","/","/","t","w","i","t","t","e","r",".","c","o","m","/","s","h","a","r","e","\"",">","S","h","a","r","e","<","/","a",">">>,
    <<"<","a"," ","c","l","a","s","s","=","\"","t","\""," ","h","r","e","f","=","\"","h","t","t","p","s",":","/","/","e","x","a","m","p","l","e",".","c","o","m","/","c","\"",">","C","<","/","a",">">>,
    <<"<","a"," ","h","r","e","f","=","\"","h","t","t","p","s",":","/","/","w","w","w",".","g","o","o","g","l","e",".","c","o","m","/","u","r","l","?","u","r","l","=","f","t","p",":","/","/","e","x","a","m","p","l","e",".","c","o","m","/","f","\"",">","F","<","/","a",">">>,
    <<"<","a"," ","h","r","e","f","=","\"","h","t","t","p","s",":","/","/","e","x","a","m","p","l","e",".","c","o","m","/","v","\"",">","<","b",">"," ","<","/","b",">","V","i","s","i","b","l","e","<","/","a",">">>,
    <<"<","a"," ","h","r","e","f","=","\"","h","t","t","p","s",":","/","/","w","w","w",".","g","o","o","g","l","e",".","c","o","m","/","u","r","l","?","u","r","l","=","h","t","t","p","s","%","3","A","%","2","F","%","2","F","w","w","w",".","g","o","o","g","l","e",".","c","o","m","%","2","F","u","r","l","%","3","F","u","r","l","%","3","D","h","t","t","p","s","%","2","5","3","A","%","2","5","2","F","%","2","5","2","F","e","x","a","m","p","l","e",".","c","o","m","%","2","5","2","F","n","\"",">","N","<","/","a",">">>,
    <<"R","e","a","d"," ","h","t","t","p","s",":","/","/","e","x","a","m","p","l","e",".","c","o","m","/","s","t","o","r","y",".">>,
    <<"h","t","t","p","s",":","/","/","w","w","w",".","f","a","c","e","b","o","o","k",".","c","o","m","/","s","h","a","r","e">>,
    <<"S","e","e"," ","h","t","t","p","s",":","/","/","w","w","w",".","g","o","o","g","l","e",".","c","o","m","/","u","r","l","?","u","r","l","=","f","t","p",":","/","/","e","x","a","m","p","l","e",".","c","o","m","/","f">> >>

\* the segments of a body, each on its own line
RECURSIVE JoinLines(_)
JoinLines(segs) ==
    IF segs = <<>> THEN <<>>
    ELSE IF Len(segs) = 1 THEN Segments[segs[1]]
    ELSE Segments[segs[1]] \o <<"\n">> \o JoinLines(Tail(segs))

Bodies == {JoinLines(segs) :
              segs \in UNION {[1..n -> 1..Len(Segments)] : n \in 0..MaxSegs}}

\* subject and channel of the e-mail
SubjectCases == <<
    [subject |-> <<"G","o","o","g","l","e"," ","A","l","e","r","t"," ","-"," ","m","i","n","i","n","g">>, alert_type |-> "google"],
    [subject |-> <<"S","c","h","o","l","a","r"," ","A","l","e","r","t",":"," ","g","e","o","l","o","g","y">>, alert_type |-> "scholar"],
    [subject |-> <<"F","w","d",":"," ","G","o","o","g","l","e"," ","A","l","e","r","t"," ","-"," ","m","i","n","i","n","g">>, alert_type |-> "google"],
    [subject |-> <<"S","c","h","o","l","a","r"," ","A","l","e","r","t",":"," ","g","e","o","l","o","g","y">>, alert_type |-> "google"],
    [subject |-> <<"N","e","w"," ","r","e","s","u","l","t","s">>, alert_type |-> "scholar"] >>

\* the e-mails: alert_query is computed from the subject alone, so every body
\* comes with the first subject, and every subject with the bodies of one
\* piece at most
Emails ==
    {[body |-> b, case |-> 1] : b \in Bodies}
        \cup {[body |-> JoinLines(segs), case |-> c] :
                 segs \in {<<>>} \cup {<<k>> : k \in 1..Len(Segments)},
                 c \in 2..Len(SubjectCases)}

UrlIdle ==
    /\ url = <<>> /\ req = [wraps |-> <<>>, dest |-> <<>>] /\ ustep = "idle"
    /\ resolved = <<>> /\ resolved2 = <<>>
    /\ exclDone = FALSE /\ excl = FALSE
    /\ exclResDone = FALSE /\ exclRes = FALSE

InitExtract ==
    /\ \E m \in Emails :
           /\ body = m.body
           /\ subject = SubjectCases[m.case].subject
           /\ alert_type = SubjectCases[m.case].alert_type
    /\ pc = "start"
    /\ alert_query = <<>> /\ urls = <<>> /\ matches = <<>> /\ gate = FALSE
    /\ anchored = <<>> /\ articles = <<>> /\ origin = <<>> /\ result = <<>>
    /\ UrlIdle
    /\ ListIdle
    /\ AnalyzeIdle
    /\ FetchIdle

\* one call of _extract_alert_info, from its first statement to its return:
\*   alert_query from the subject; urls = URL_PATTERN.findall(body);
\*   articles = []
\*   if '<a href=' in body: for url, content in LINK_PATTERN.findall(body): ...
\*   if not articles: for url in urls: ...
\*   return {'alert_query': ..., 'articles': ..., 'full_body': body[:500]}
extract_alert_info ==
    /\ pc = "start"
    /\ alert_query' = AlertQuery(subject, alert_type)
    /\ urls' = UrlFindall(body)
    /\ gate' = Contains(body, <<"<","a"," ","h","r","e","f","=">>)
    /\ matches' = IF gate' THEN LinkFindall(body) ELSE <<>>
    /\ anchored' = IF gate' THEN Appended(AnchorPasses(matches')) ELSE <<>>
    /\ articles' = IF anchored' = <<>> THEN Appended(BarePasses(urls'))
                   ELSE anchored'
    /\ origin' = IF anchored' = <<>>
                 THEN AppendedFrom(BarePasses(urls'), "bare")
                 ELSE AppendedFrom(AnchorPasses(matches'), "anchor")
    /\ result' = [alert_query |-> alert_query', articles |-> articles',
                  full_body |-> Prefix(body, FULL_BODY_PREVIEW)]
    /\ pc' = "done"
    /\ UNCHANGED <<body, subject, alert_type, uvars, lvars, avars, fvars>>

NextExtract == extract_alert_info

SpecExtract == InitExtract /\ [][NextExtract]_vars

-----------------------------------------------------------------------------
(* list_articles.py: Article.get_date_for_sorting                          *)

IsDigit(c) == c \in {"0", "1", "2", "3", "4", "5", "6", "7", "8", "9"}

\* int(tok) for a string of digits
RECURSIVE Number(_)
Number(tok) ==
    IF tok = <<>> THEN 0
    ELSE Number(SubSeq(tok, 1, Len(tok) - 1)) * 10 + HexVal(tok[Len(tok)])

\* what a numeric directive of strptime accepts between two separators:
\* digits only, as many as the directive allows, with a value in its range
Field(tok, widths, lo, hi) ==
    /\ Len(tok) \in widths
    /\ \A k \in 1..Len(tok) : IsDigit(tok[k])
    /\ Number(tok) \in lo..hi

IsLeap(y) == (y % 4 = 0 /\ y % 100 # 0) \/ y % 400 = 0

DaysInMonth(y, m) ==
    IF m = 2 THEN (IF IsLeap(y) THEN 29 ELSE 28)
    ELSE IF m \in {4, 6, 9, 11} THEN 30 ELSE 31

\* the days from 1970-01-01 to the date y-m-d of the proleptic Gregorian
\* calendar (what the difference of two datetime values counts)
DaysFromCivil(y, m, d) ==
    LET yy == IF m <= 2 THEN y - 1 ELSE y
        era == yy \div 400
        yoe == yy - era * 400
        mp == IF m > 2 THEN m - 3 ELSE m + 9
        doy == (153 * mp + 2) \div 5 + d - 1
        doe == yoe * 365 + yoe \div 4 - yoe \div 100 + doy
    IN  era * 146097 + doe - 719468

\* a datetime: the seconds from 1970-01-01T00:00:00 of its own fields (of its
\* UTC instant when it is aware), its microseconds, whether it carries tzinfo
NoDate == [ok |-> FALSE, aware |-> FALSE, t |-> 0, us |-> 0]

\* datetime.fromtimestamp(0), the process running in UTC
Epoch == [ok |-> TRUE, aware |-> FALSE, t |-> 0, us |-> 0]

\* the position of the 'T' between date and time (strptime ignores case)
TimeSep(s) ==
    LET hits == {i \in 1..Len(s) : s[i] \in {"T", "t"}}
    IN  IF hits = {} THEN 0 ELSE SetMin(hits)

\* %d also accepts a day of one digit (not 0) padded with a space
DayDigits(tok) ==
    IF Len(tok) = 2 /\ tok[1] = " " /\ tok[2] # "0" THEN Tail(tok) ELSE tok

\* %Y-%m-%d: the days from 1970-01-01
ParseYMD(p) ==
    LET toks == Split(p, <<"-">>)
    IN  IF /\ Len(toks) = 3
           /\ Field(toks[1], {4}, 1, 9999)
           /\ Field(toks[2], {1, 2}, 1, 12)
           /\ Field(DayDigits(toks[3]), {1, 2}, 1,
                    DaysInMonth(Number(toks[1]), Number(toks[2])))
        THEN [ok |-> TRUE,
              days |-> DaysFromCivil(Number(toks[1]), Number(toks[2]),
                                     Number(DayDigits(toks[3])))]
        ELSE [ok |-> FALSE, days |-> 0]

\* %H:%M:%S: the second of the day
ParseHMS(c) ==
    LET toks == Split(c, <<":">>)
    IN  IF /\ Len(toks) = 3
           /\ Field(toks[1], {1, 2}, 0, 23)
           /\ Field(toks[2], {1, 2}, 0, 59)
           /\ Field(toks[3], {1, 2}, 0, 59)
        THEN [ok |-> TRUE,
              sec |-> Number(toks[1]) * 3600 + Number(toks[2]) * 60
                          + Number(toks[3])]
        ELSE [ok |-> FALSE, sec |-> 0]

\* %f: one to six digits, read as a decimal fraction of a second
ParseFraction(f) ==
    IF Field(f, 1..6, 0, 999999)
    THEN [ok |-> TRUE,
          us |-> Number(f \o SubSeq(<<"0", "0", "0", "0", "0">>, 1, 6 - Len(f)))]
    ELSE [ok |-> FALSE, us |-> 0]

\* %z on what is left of an offset once '+' and 'Z' are cut away:
\* -HH[:]MM[[:]SS[.ffffff]], the colons used throughout or not at all, less
\* than a day; sec and us are the time the offset is behind UTC
ParseOffset(z) ==
    LET colon == Len(z) >= 4 /\ z[4] = ":"
        w == IF colon THEN 1 ELSE 0
        hh == SubSeq(z, 2, 3)
        mm == SubSeq(z, 4 + w, 5 + w)
        tail == From(z, 6 + w)
        ss == SubSeq(tail, 1 + w, 2 + w)
        ff == From(tail, 4 + w)
        fraction == IF Len(tail) > 2 + w THEN ParseFraction(ff)
                    ELSE [ok |-> TRUE, us |-> 0]
    IN  IF /\ Len(z) >= 5 + w
           /\ z[1] = "-"
           /\ Field(hh, {2}, 0, 23)
           /\ Field(mm, {2}, 0, 59)
           /\ \/ tail = <<>>
              \/ /\ Len(tail) >= 2 + w
                 /\ colon => tail[1] = ":"
                 /\ Field(ss, {2}, 0, 59)
                 /\ Len(tail) > 2 + w => tail[3 + w] = "."
                 /\ fraction.ok
        THEN [ok |-> TRUE,
              sec |-> Number(hh) * 3600 + Number(mm) * 60
                          + (IF tail = <<>> THEN 0 ELSE Number(ss)),
              us |-> fraction.us]
        ELSE [ok |-> FALSE, sec |-> 0, us |-> 0]

\* the accepted formats, in the order the loop tries them: whether the format
\* has a time, a fraction, an offset
DateFormats == <<
    [time |-> FALSE, frac |-> FALSE, zone |-> FALSE],   \* %Y-%m-%d
    [time |-> TRUE,  frac |-> FALSE, zone |-> FALSE],   \* %Y-%m-%dT%H:%M:%S
    [time |-> TRUE,  frac |-> TRUE,  zone |-> FALSE],   \* %Y-%m-%dT%H:%M:%S.%f
    [time |-> TRUE,  frac |-> FALSE, zone |-> TRUE],    \* %Y-%m-%dT%H:%M:%S%z
    [time |-> TRUE,  frac |-> TRUE,  zone |-> TRUE] >>  \* %Y-%m-%dT%H:%M:%S.%f%z

\* datetime.strptime(s, fmt): NoDate stands for ValueError
strptime(s, fmt) ==
    LET ts == TimeSep(s)
        ymd == ParseYMD(IF ts = 0 THEN s ELSE SubSeq(s, 1, ts - 1))
        rest == IF ts = 0 THEN <<>> ELSE From(s, ts + 1)
        zi == Find(rest, <<"-">>, 1)
        clock == IF zi = 0 THEN rest ELSE SubSeq(rest, 1, zi - 1)
        zone == IF zi = 0 THEN <<>> ELSE From(rest, zi)
        fi == Find(clock, <<".">>, 1)
        hms == ParseHMS(IF fi = 0 THEN clock ELSE SubSeq(clock, 1, fi - 1))
        frac == IF fi = 0 THEN [ok |-> TRUE, us |-> 0]
                ELSE ParseFraction(From(clock, fi + 1))
        offset == IF zi = 0 THEN [ok |-> TRUE, sec |-> 0, us |-> 0]
                  ELSE ParseOffset(zone)
        micros == frac.us + offset.us
    IN  IF ~fmt.time
        THEN IF ts = 0 /\ ymd.ok
             THEN [ok |-> TRUE, aware |-> FALSE, t |-> ymd.days * 86400, us |-> 0]
             ELSE NoDate
        ELSE IF /\ ts # 0 /\ ymd.ok /\ hms.ok
                /\ fmt.frac = (fi # 0) /\ frac.ok
                /\ fmt.zone = (zi # 0) /\ offset.ok
             THEN [ok |-> TRUE, aware |-> fmt.zone,
                   t |-> ymd.days * 86400 + hms.sec + offset.sec
                             + micros \div 1000000,
                   us |-> micros % 1000000]
             ELSE NoDate

\* self.date.split('+')[0].split('Z')[0]
WithoutZone(date) == Split(Split(date, <<"+">>)[1], <<"Z">>)[1]

\* Article.get_date_for_sorting: the first format that parses, else the epoch
get_date_for_sorting(date) ==
    LET s == WithoutZone(date)
        parsing == {k \in 1..Len(DateFormats) : strptime(s, DateFormats[k]).ok}
    IN  IF parsing = {} THEN Epoch
        ELSE strptime(s, DateFormats[SetMin(parsing)])

-----------------------------------------------------------------------------
(* list_articles.py: parse_report_json                                     *)

\* dict.get(key, default)
Get(d, key, default) == IF key \in DOMAIN d THEN d[key] ELSE default

\* {}
EmptyDict == <<>>

\* Article(title, url, summary, date, source, alert_query, is_relevant,
\*         relevance_reasoning)
Article(title, url_, summary, date, source, alert_query_, is_relevant, reasoning) ==
    [title |-> title, url |-> url_, summary |-> summary, date |-> date,
     source |-> source, alert_query |-> alert_query_, is_relevant |-> is_relevant,
     relevance_reasoning |-> reasoning]

\* a slip: the per-article analysis ignored, every entry read as the legacy
\* shape
EntryArticles_RawOnly(entry, source_type) ==
    LET alert == Get(entry, "alert", EmptyDict)
        decision == Get(entry, "decision", EmptyDict)
        raw_articles == Get(alert, "articles", <<>>)
    IN  [k \in 1..Len(raw_articles) |->
            Article(Get(raw_articles[k], "title", "No Title"),
                    Get(raw_articles[k], "url", ""),
                    Get(raw_articles[k], "snippet", ""),
                    Get(alert, "date", <<"U","n","k","n","o","w","n"," ","D","a","t","e">>), source_type,
                    Get(alert, "alert_query", "Unknown Query"),
                    Get(decision, "is_relevant", FALSE),
                    Get(decision, "reasoning", ""))]

\* the articles one entry of data['results'] yields: the per-article analysis
\* of the decision when there is one, else the raw articles of the alert with
\* the alert-level decision
EntryArticles(entry, source_type) ==
    LET alert == Get(entry, "alert", EmptyDict)
        decision == Get(entry, "decision", EmptyDict)
        alert_query_ == Get(alert, "alert_query", "Unknown Query")
        alert_date == Get(alert, "date", <<"U","n","k","n","o","w","n"," ","D","a","t","e">>)
        analyzed_articles == Get(decision, "articles", <<>>)
        raw_articles == Get(alert, "articles", <<>>)
    IN  IF analyzed_articles # <<>>
        THEN [k \in 1..Len(analyzed_articles) |->
                LET article_data == analyzed_articles[k]
                IN  Article(Get(article_data, "title", "No Title"),
                            Get(article_data, "url", ""),
                            Get(article_data, "summary", ""),
                            alert_date, source_type, alert_query_,
                            Get(article_data, "is_relevant", FALSE),
                            Get(article_data, "relevance_reasoning", ""))]
        ELSE [k \in 1..Len(raw_articles) |->
                LET article_data == raw_articles[k]
                IN  Article(Get(article_data, "title", "No Title"),
                            Get(article_data, "url", ""),
                            Get(article_data, "snippet", ""),
                            alert_date, source_type, alert_query_,
                            Get(decision, "is_relevant", FALSE),
                            Get(decision, "reasoning", ""))]

\* the entries a report may hold under 'results'
ResultEntries == <<
    \* per-article analysis, one article relevant and one not
    [alert |-> [alert_query |-> "lithium", date |-> <<"2","0","2","4","-","0","1","-","1","5">>,
                articles |-> <<[title |-> "A", url |-> "https://a.example",
                                snippet |-> "raw a"]>>],
     decision |-> [is_relevant |-> TRUE, reasoning |-> "alert level",
                   articles |-> <<
                       [title |-> "A", url |-> "https://a.example",
                        summary |-> "about a", is_relevant |-> TRUE,
                        relevance_reasoning |-> "on topic"],
                       [title |-> "B", url |-> "https://b.example",
                        summary |-> "about b", is_relevant |-> FALSE,
                        relevance_reasoning |-> "off topic"]>>]],
    \* older format, the date with a negative UTC offset
    [alert |-> [alert_query |-> "gold", date |-> <<"2","0","2","4","-","0","1","-","1","6","T","0","8",":","0","0",":","0","0","-","0","5",":","0","0">>,
                articles |-> <<[title |-> "C", url |-> "https://c.example",
                                snippet |-> "raw c"]>>],
     decision |-> [is_relevant |-> TRUE, reasoning |-> "worth reading"]],
    \* older format, not relevant, no date and no query, an article without
    \* title and snippet and an empty per-article list
    [alert |-> [articles |-> <<[title |-> "D", url |-> "https://d.example",
                                snippet |-> "raw d"],
                               [url |-> "https://e.example"]>>],
     decision |-> [is_relevant |-> FALSE, reasoning |-> "noise",
                   articles |-> <<>>]],
    \* per-article analysis, the date with a positive UTC offset
    [alert |-> [alert_query |-> "copper", date |-> <<"2","0","2","4","-","0","1","-","1","5","T","1","0",":","3","0",":","0","0","+","0","5",":","0","0">>,
                articles |-> <<>>],
     decision |-> [articles |-> <<
                       [title |-> "F", url |-> "https://f.example",
                        summary |-> "", is_relevant |-> TRUE]>>]],
    \* older format, the date in UTC
    [alert |-> [alert_query |-> "nickel", date |-> <<"2","0","2","4","-","0","1","-","1","5","T","1","0",":","3","0",":","0","0","Z">>,
                articles |-> <<[title |-> "G", url |-> "https://g.example",
                                snippet |-> "raw g"]>>],
     decision |-> [is_relevant |-> TRUE, reasoning |-> ""]],
    \* older format, a date that is no timestamp
    [alert |-> [alert_query |-> "zinc",
                date |-> <<"T","u","e",","," ","1","6"," ","J","a","n"," ","2","0","2","4"," ","0","8",":","0","0",":","0","0"," ","+","0","0","0","0">>,
                articles |-> <<[title |-> "H", url |-> "https://h.example",
                                snippet |-> "raw h"]>>],
     decision |-> [is_relevant |-> TRUE, reasoning |-> "worth reading"]] >>

\* json.load(f) of a file that holds a report: the file lists its entries
Report(file) ==
    [results |-> [k \in 1..Len(file.results) |-> ResultEntries[file.results[k]]]]

Return(value) == [outcome |-> "returned", error |-> "", value |-> value]
Raised(error) == [outcome |-> "raised", error |-> error, value |-> <<>>]

\* parse_report_json(file_path, source_type) on a file that is missing, holds
\* text that is no JSON, holds bytes that are no UTF-8, or holds a report
parse_report_json(file, source_type) ==
    IF file.kind = "missing" THEN Return(<<>>)           \* FileNotFoundError
    ELSE IF file.kind = "invalid_json" THEN Return(<<>>) \* JSONDecodeError
    ELSE IF file.kind = "not_utf8" THEN Raised("UnicodeDecodeError")
    ELSE LET data == Report(file)
             results == Get(data, "results", <<>>)
         IN  Return(Cat([k \in 1..Len(results) |->
                                EntryArticles(results[k], source_type)]))

-----------------------------------------------------------------------------
(* list_articles.py: format_article_list                                   *)

\* the dates the entries carry, and the default of alert.get('date', ...)
EntryDates ==
    {Get(Get(ResultEntries[k], "alert", EmptyDict), "date", <<"U","n","k","n","o","w","n"," ","D","a","t","e">>) :
        k \in 1..Len(ResultEntries)}

\* the key of the sort: x.get_date_for_sorting(), looked up in sort_keys
Key(a) == sort_keys[a.date]

\* a < b for two datetime values of the same kind
Earlier(a, b) == a.t < b.t \/ (a.t = b.t /\ a.us < b.us)

\* comparing an offset-naive with an offset-aware datetime raises TypeError;
\* a sort compares values of both kinds as soon as the list holds both
SortRaises(articles_) ==
    \E i, j \in 1..Len(articles_) :
        Key(articles_[i]).aware # Key(articles_[j]).aware

\* a slip: the sort without reverse=True, oldest first
SortedOldestFirst(articles_) ==
    LET n == Len(articles_)
        Ahead(i) == Cardinality({j \in 1..n :
                        \/ Earlier(Key(articles_[j]), Key(articles_[i]))
                        \/ j < i /\ ~Earlier(Key(articles_[i]), Key(articles_[j]))})
    IN  [p \in 1..n |-> articles_[CHOOSE i \in 1..n : Ahead(i) = p - 1]]

\* articles.sort(key=lambda x: x.get_date_for_sorting(), reverse=True): a
\* stable sort, so ahead of each article go the newer ones and, of the ones
\* with an equal key, those that were ahead of it in the list
SortedNewestFirst(articles_) ==
    LET n == Len(articles_)
        Ahead(i) == Cardinality({j \in 1..n :
                        \/ Earlier(Key(articles_[i]), Key(articles_[j]))
                        \/ j < i /\ ~Earlier(Key(articles_[j]), Key(articles_[i]))})
    IN  [p \in 1..n |-> articles_[CHOOSE i \in 1..n : Ahead(i) = p - 1]]

\* [a for a in articles if a.is_relevant]
IsRelevant(a) == a.is_relevant

\* one article as the text and markdown branches print it
Block(i, a) ==
    [number |-> i,
     relevance_icon |-> IF a.is_relevant THEN "yes" ELSE "no",
     source_label |-> IF a.source = "google_alerts" THEN "Google Alert"
                      ELSE "Scholar Alert",
     title |-> a.title, date |-> a.date, alert_query |-> a.alert_query,
     url |-> a.url,
     summary |-> IF a.summary # "" THEN <<a.summary>> ELSE <<>>,
     relevance |-> IF a.relevance_reasoning # "" THEN <<a.relevance_reasoning>>
                   ELSE <<>>]

\* what format_article_list returns: which text (the 'No articles found.'
\* message, a JSON array, markdown, plain text), the 'Total Articles' line of
\* the markdown and text headers, and one item per article: the dictionary
\* dumped for JSON, the printed block otherwise
Output(kind, total, items) == [kind |-> kind, total |-> total, items |-> items]

\* format_article_list(articles, format_type, show_irrelevant)
format_article_list(articles_, format_type, show_irrelevant) ==
    IF articles_ = <<>> THEN Return(Output("message", <<>>, <<>>))
    ELSE LET filtered == IF ~show_irrelevant THEN SelectSeq(articles_, IsRelevant)
                         ELSE articles_
         IN  IF SortRaises(filtered) THEN Raised("TypeError")
             ELSE LET sorted == SortedNewestFirst(filtered)
                  IN  IF format_type = "json"
                      THEN Return(Output("json", <<>>, sorted))
                      ELSE Return(Output(format_type, <<Len(sorted)>>,
                               [i \in 1..Len(sorted) |->
                                   Block(i, sorted[i])]))

\* a list whose order is known; a list that a failed sort has left partially
\* modified: the articles it holds, each as often as before, in an order the
\* source does not determine
InOrder(list) == [determined |-> TRUE, list |-> list]
PartiallyModified(list) ==
    [determined |-> FALSE,
     items |-> [a \in {list[i] : i \in 1..Len(list)} |->
                  Cardinality({i \in 1..Len(list) : list[i] = a})]]

\* the list the caller passed, after format_article_list(articles, ...): the
\* filter binds the name articles to a new list, without it articles.sort
\* sorts the caller's list in place
ListAfterFormat(articles_, show_irrelevant) ==
    IF articles_ = <<>> THEN InOrder(articles_)
    ELSE IF ~show_irrelevant THEN InOrder(articles_)
    ELSE IF SortRaises(articles_) THEN PartiallyModified(articles_)
    ELSE InOrder(SortedNewestFirst(articles_))

-----------------------------------------------------------------------------
(* list_articles.py: main                                                  *)

\* Path(file).exists()
Exists(file) == file.kind # "missing"

\* main() with the parsed arguments args, the two report files as they are on
\* disk: the exit status and what is written, to stdout or to --output
\* (combined) or to the two files of --separate
main(args_, google_file_, scholar_file_) ==
    LET read_google == ~args_.scholar_alerts_only /\ Exists(google_file_)
        read_scholar == ~args_.google_alerts_only /\ Exists(scholar_file_)
        google == IF read_google
                  THEN parse_report_json(google_file_, "google_alerts")
                  ELSE Return(<<>>)
        scholar == IF read_scholar
                   THEN parse_report_json(scholar_file_, "scholar_alerts")
                   ELSE Return(<<>>)
        google_articles == google.value
        scholar_articles == scholar.value
        all_articles == google_articles \o scholar_articles
        written(list) == format_article_list(list, args_.format, args_.show_all)
        Exit(status, combined, g, s) ==
            Return([status |-> status, combined |-> combined,
                       google |-> g, scholar |-> s])
    IN  IF google.outcome = "raised" THEN Raised(google.error)
        ELSE IF scholar.outcome = "raised" THEN Raised(scholar.error)
        ELSE IF all_articles = <<>> THEN Exit(1, <<>>, <<>>, <<>>)
        ELSE IF args_.separate
        THEN IF google_articles # <<>> /\ written(google_articles).outcome = "raised"
             THEN Raised(written(google_articles).error)
             ELSE IF scholar_articles # <<>>
                     /\ written(scholar_articles).outcome = "raised"
             THEN Raised(written(scholar_articles).error)
             ELSE Exit(0, <<>>,
                       IF google_articles # <<>>
                       THEN <<written(google_articles).value>> ELSE <<>>,
                       IF scholar_articles # <<>>
                       THEN <<written(scholar_articles).value>> ELSE <<>>)
        ELSE IF written(all_articles).outcome = "raised"
             THEN Raised(written(all_articles).error)
             ELSE Exit(0, <<written(all_articles).value>>, <<>>, <<>>)

-----------------------------------------------------------------------------
(* list_articles.py called on two report files                             *)

MaxResults == 2   \* entries under 'results' in the Google Alerts report, at most

GoogleFiles ==
    {File("missing", <<>>), File("invalid_json", <<>>), File("not_utf8", <<>>)}
        \cup {File("report", ix) :
                 ix \in UNION {[1..n -> 1..Len(ResultEntries)] : n \in 0..MaxResults}}

ScholarFiles ==
    {File("missing", <<>>), File("invalid_json", <<>>),
     File("report", <<5>>), File("report", <<2, 3>>)}

ArgCases ==
    {Args(f, a, FALSE, FALSE, FALSE) :
        f \in {"text", "markdown", "json"}, a \in BOOLEAN}
        \cup {Args("text", FALSE, TRUE, FALSE, FALSE),
              Args("json", TRUE, FALSE, TRUE, FALSE),
              Args("markdown", FALSE, FALSE, FALSE, TRUE)}

InitList ==
    /\ sort_keys = [d \in EntryDates |-> get_date_for_sorting(d)]
    /\ google_file \in GoogleFiles
    /\ scholar_file \in ScholarFiles
    /\ args \in ArgCases
    /\ lstep = "start"
    /\ google_parsed = <<>> /\ scholar_parsed = <<>>
    /\ formatted = <<>> /\ exited = <<>>
    /\ passed_articles = <<>>
    /\ UrlIdle
    /\ ExtractIdle
    /\ AnalyzeIdle
    /\ FetchIdle

\* parse_report_json(args.google_alerts, 'google_alerts')
CallParseGoogle ==
    /\ lstep = "start"
    /\ google_parsed' = parse_report_json(google_file, "google_alerts")
    /\ lstep' = "google"
    /\ UNCHANGED <<google_file, scholar_file, args, scholar_parsed, formatted,
                   exited, passed_articles, sort_keys, uvars, evars, avars, fvars>>

\* parse_report_json(args.scholar_alerts, 'scholar_alerts')
CallParseScholar ==
    /\ lstep = "google"
    /\ scholar_parsed' = parse_report_json(scholar_file, "scholar_alerts")
    /\ lstep' = "scholar"
    /\ UNCHANGED <<google_file, scholar_file, args, google_parsed, formatted,
                   exited, passed_articles, sort_keys, uvars, evars, avars, fvars>>

\* the articles of both channels that were parsed
Parsed == google_parsed.value \o scholar_parsed.value

\* format_article_list(articles, args.format, args.show_all)
CallFormat ==
    /\ lstep = "scholar"
    /\ formatted' = format_article_list(Parsed, args.format, args.show_all)
    /\ passed_articles' = ListAfterFormat(Parsed, args.show_all)
    /\ lstep' = "formatted"
    /\ UNCHANGED <<google_file, scholar_file, args, google_parsed,
                   scholar_parsed, exited, sort_keys, uvars, evars, avars, fvars>>

\* main()
CallMain ==
    /\ lstep = "formatted"
    /\ exited' = main(args, google_file, scholar_file)
    /\ lstep' = "exited"
    /\ UNCHANGED <<google_file, scholar_file, args, google_parsed,
                   scholar_parsed, formatted, passed_articles, sort_keys, uvars, evars, avars, fvars>>

NextList ==
    \/ CallParseGoogle
    \/ CallParseScholar
    \/ CallFormat
    \/ CallMain

SpecList == InitList /\ [][NextList]_vars

-----------------------------------------------------------------------------
(* gmail_fetcher.py: the Gmail query of a date range                        *)
(* An optional argument or value is <<>> for None and <<x>> for x.          *)

GMAIL_API_MAX_RESULTS_PER_PAGE == 500

\* (datetime.now() - timedelta(days=days)).strftime('%Y/%m/%d') when now()
\* falls on the day today, counted in days since 1970-01-01
DateStr(today, days) ==
    LET zz == today - days + 719468
        era == zz \div 146097
        doe == zz - era * 146097
        yoe == (doe - doe \div 1460 + doe \div 36524 - doe \div 146096) \div 365
        doy == doe - (365 * yoe + yoe \div 4 - yoe \div 100)
        mp == (5 * doy + 2) \div 153
        d == doy - (153 * mp + 2) \div 5 + 1
        m == IF mp < 10 THEN mp + 3 ELSE mp - 9
        y == yoe + era * 400 + (IF m <= 2 THEN 1 ELSE 0)
        digits == <<"0", "1", "2", "3", "4", "5", "6", "7", "8", "9">>
        Padded(n, w) == [k \in 1..w |-> digits[((n \div (10 ^ (w - k))) % 10) + 1]]
    IN  Padded(y, 4) \o <<"/">> \o Padded(m, 2) \o <<"/">> \o Padded(d, 2)

\* the sender of each kind of alert
Sender(kind) ==
    IF kind = "scholar" THEN <<"f","r","o","m",":","s","c","h","o","l","a","r","a","l","e","r","t","s","-","n","o","r","e","p","l","y","@","g","o","o","g","l","e",".","c","o","m">>
    ELSE <<"f","r","o","m",":","g","o","o","g","l","e","a","l","e","r","t","s","-","n","o","r","e","p","l","y","@","g","o","o","g","l","e",".","c","o","m">>

\* the query of fetch_google_alerts / fetch_scholar_alerts: search_date is
\* taken from a first datetime.now(), before_date from a second one
FetchQuery(sender, days_back, days_back_start, reads) ==
    LET date_str == DateStr(reads[1], days_back)
    IN  IF days_back_start # <<>> /\ days_back_start[1] > days_back
        THEN LET before_date_str == DateStr(reads[2], days_back_start[1])
             IN  sender \o <<" ","a","f","t","e","r",":">> \o before_date_str
                        \o <<" ","b","e","f","o","r","e",":">> \o date_str
        ELSE sender \o <<" ","a","f","t","e","r",":">> \o date_str

\* base_query of get_alert_statistics: 'if days_back:' fails for None and for 0
StatisticsQuery(kind, days_back, days_back_start, reads) ==
    LET base_query == Sender(kind)
    IN  IF days_back # <<>> /\ days_back[1] # 0
        THEN LET date_str == DateStr(reads[1], days_back[1])
                 after == base_query \o <<" ","a","f","t","e","r",":">> \o date_str
             IN  IF days_back_start # <<>> /\ days_back_start[1] > days_back[1]
                 THEN after \o <<" ","b","e","f","o","r","e",":">>
                            \o DateStr(reads[2], days_back_start[1])
                 ELSE after
        ELSE base_query

-----------------------------------------------------------------------------
(* gmail_fetcher.py: the Gmail API as the fetcher meets it                  *)

\* what list().execute() can answer to a request, for a mailbox with size
\* matching messages: pages filled to maxResults with a token exactly when
\* messages remain ("full"), pages shorter than asked ("short"), pages of any
\* length with or without a token ("any"), or a failure of the call
\* ("failing"). A page holds count messages from the one numbered first; its
\* nextPageToken is the number of messages before the next page.
ListResponses(box, request) ==
    LET offset == IF request.pageToken = <<>> THEN 0 ELSE request.pageToken[1]
        rest == IF box.size > offset THEN box.size - offset ELSE 0
        full == Min(request.maxResults, rest)
        Page(count, more) ==
            [error |-> FALSE, first |-> offset + 1, count |-> count,
             nextPageToken |-> IF more THEN <<offset + count>> ELSE <<>>]
        HttpError == [error |-> TRUE, first |-> 0, count |-> 0,
                      nextPageToken |-> <<>>]
    IN  IF box.paging = "full" THEN {Page(full, full < rest)}
        ELSE IF box.paging = "short"
        THEN {Page(n, n < rest) : n \in {Min(1, full), (full + 1) \div 2, full}}
        ELSE IF box.paging = "any"
        THEN {Page(n, more) : n \in {0, Min(1, full), full}, more \in BOOLEAN}
        ELSE {HttpError, Page(full, full < rest)}

\* a slip: a message that cannot be retrieved or parsed is reported as an
\* alert without content
parse_alert_message_NoSkip(box, id) ==
    <<[date |-> <<"Date", id>>, message_id |-> id]>>

\* _parse_alert_message(message_id, alert_type): None when get().execute()
\* or the parsing raises, else the alert with the Date header and the id of
\* the message (its alert_query and articles are those of
\* _extract_alert_info, which alone depends on alert_type)
parse_alert_message(box, id) ==
    IF id \in box.get_fails \cup box.parse_fails THEN <<>>
    ELSE <<[date |-> <<"Date", id>>, message_id |-> id]>>

\* alerts: for message in messages, the alert_data that is not None
Alerts(box, ids) ==
    LET Parsable(id) == parse_alert_message(box, id) # <<>>
        kept == SelectSeq(ids, Parsable)
    IN  [p \in 1..Len(kept) |-> parse_alert_message(box, kept[p])[1]]

\* a slip: the safety limit without its buffer
MaxIterations_NoBuffer(max_results) == max_results \div GMAIL_API_MAX_RESULTS_PER_PAGE

\* max_iterations = (max_results // GMAIL_API_MAX_RESULTS_PER_PAGE) + 2
MaxIterations(max_results) == (max_results \div GMAIL_API_MAX_RESULTS_PER_PAGE) + 2

\* a slip: the loop without its safety limit
Continue_NoLimit == Len(messages) < fargs.max_results

\* while len(messages) < max_results and iterations < max_iterations
Continue ==
    /\ Len(messages) < fargs.max_results
    /\ iterations < MaxIterations(fargs.max_results)

\* a slip: the token of the previous page is not passed on
NextRequest_NoToken ==
    [userId |-> "me", q |-> query,
     maxResults |-> Min(fargs.max_results - Len(messages),
                        GMAIL_API_MAX_RESULTS_PER_PAGE),
     pageToken |-> <<>>]

\* request_params of the iteration, with results_needed for maxResults;
\* pageToken <<>> stands for a call without that keyword
NextRequest ==
    [userId |-> "me", q |-> query,
     maxResults |-> Min(fargs.max_results - Len(messages),
                        GMAIL_API_MAX_RESULTS_PER_PAGE),
     pageToken |-> page_token]

-----------------------------------------------------------------------------
(* One call of a GmailAlertFetcher method                                   *)

\* the calls with their surroundings: every date range on a small mailbox,
\* and every mailbox with one date range. A call is made on the day after a
\* leap day, on a new year's day or on an ordinary day, and midnight may pass
\* between the first datetime.now() and the second; some messages cannot be
\* retrieved (get_fails), some cannot be parsed (parse_fails).
FetchCases ==
    LET FArgs(method, kind, days_back, max_results, days_back_start) ==
            [method |-> method, alert_type |-> kind, days_back |-> days_back,
             max_results |-> max_results, days_back_start |-> days_back_start]
        Mailbox(size, unread, paging, get_fails, parse_fails) ==
            [size |-> size, unread |-> unread, paging |-> paging,
             get_fails |-> get_fails, parse_fails |-> parse_fails]
        Days == {DaysFromCivil(2024, 3, 1), DaysFromCivil(2025, 1, 1),
                 DaysFromCivil(2025, 11, 3)}
        Clocks == {<<d, d + t>> : d \in Days, t \in {0, 1}}
        OneDay == <<DaysFromCivil(2025, 11, 3), DaysFromCivil(2025, 11, 3)>>
        DaysBackCases == {0, 1, 7, 250}
        DaysBackStartCases == {<<>>} \cup {<<x>> : x \in {0, 1, 2, 7, 8, 280}}
        MaxResultsCases == {0, 1, 10, 500, 501, 1000, 1200}
        MailboxSizes == {0, 1, 100, 500, 501, 1200, 1700}
        FailCases == {<<{}, {}>>, <<{2}, {}>>, <<{1}, {3, 500}>>}
        FetchMethods == {"fetch_google_alerts", "fetch_scholar_alerts"}
    IN  {[fargs |-> FArgs(m, "google", <<b>>, 10, s), now |-> c,
          mailbox |-> Mailbox(3, 1, "full", {}, {})] :
            m \in FetchMethods, b \in DaysBackCases, s \in DaysBackStartCases,
            c \in Clocks}
        \cup
        {[fargs |-> FArgs("get_alert_statistics", k, b, 10, s), now |-> c,
          mailbox |-> Mailbox(3, 1, p, {}, {})] :
            k \in {"google", "scholar"},
            b \in {<<>>} \cup {<<x>> : x \in DaysBackCases},
            s \in DaysBackStartCases, c \in Clocks, p \in {"full", "failing"}}
        \cup
        {[fargs |-> FArgs("fetch_google_alerts", "google", <<7>>, r, <<>>),
          now |-> OneDay, mailbox |-> Mailbox(n, 0, p, {}, {})] :
            r \in MaxResultsCases, n \in MailboxSizes,
            p \in {"short", "any", "failing"}}
        \cup
        {[fargs |-> FArgs(m, "google", <<7>>, r, <<>>),
          now |-> OneDay, mailbox |-> Mailbox(n, 0, "full", f[1], f[2])] :
            m \in FetchMethods, r \in MaxResultsCases, n \in MailboxSizes,
            f \in FailCases}

InitFetch ==
    /\ \E c \in FetchCases :
           /\ fargs = c.fargs
           /\ now = c.now
           /\ mailbox = c.mailbox
    /\ fstep = "start"
    /\ query = <<>> /\ messages = <<>> /\ page_token = <<>> /\ iterations = 0
    /\ calls = <<>> /\ fresult = <<>>
    /\ UrlIdle
    /\ ExtractIdle
    /\ ListIdle
    /\ AnalyzeIdle

IsFetch == fargs.method # "get_alert_statistics"

\* the kind of alert the method is for
KindOf(a) ==
    IF a.method = "fetch_google_alerts" THEN "google"
    ELSE IF a.method = "fetch_scholar_alerts" THEN "scholar"
    ELSE a.alert_type

\* fetch_google_alerts / fetch_scholar_alerts, up to the pagination loop: the
\* query is built
BuildQuery ==
    /\ fstep = "start"
    /\ IsFetch
    /\ query' = FetchQuery(Sender(KindOf(fargs)), fargs.days_back[1],
                           fargs.days_back_start, now)
    /\ fstep' = "listing"
    /\ UNCHANGED <<fargs, now, mailbox, messages, page_token, iterations, calls,
                   fresult, uvars, evars, lvars, avars>>

\* one iteration of the pagination loop: a list request and its response; an
\* HttpError is caught by the except clause of the method, which returns []
ListPage ==
    /\ fstep = "listing"
    /\ Continue
    /\ \E response \in ListResponses(mailbox, NextRequest) :
          /\ calls' = Append(calls, [request |-> NextRequest,
                                     collected |-> Len(messages),
                                     response |-> response])
          /\ iterations' = iterations + 1
          /\ IF response.error
             THEN /\ fresult' = <<>>
                  /\ fstep' = "done"
                  /\ UNCHANGED <<messages, page_token>>
             ELSE IF response.count = 0
             THEN /\ fstep' = "listed"
                  /\ UNCHANGED <<messages, page_token, fresult>>
             ELSE /\ messages' = messages \o [k \in 1..response.count |->
                                                 response.first + k - 1]
                  /\ page_token' = response.nextPageToken
                  /\ fstep' = IF response.nextPageToken = <<>> THEN "listed"
                              ELSE "listing"
                  /\ UNCHANGED fresult
    /\ UNCHANGED <<fargs, now, mailbox, query, uvars, evars, lvars, avars>>

\* after the loop: [] without messages, else the alerts of the messages that
\* _parse_alert_message could parse
ParseMessages ==
    /\ \/ fstep = "listed"
       \/ fstep = "listing" /\ ~Continue
    /\ fresult' = IF messages = <<>> THEN <<>>
                  ELSE Alerts(mailbox, messages)
    /\ fstep' = "done"
    /\ UNCHANGED <<fargs, now, mailbox, query, messages, page_token, iterations,
                   calls, uvars, evars, lvars, avars>>

\* get_alert_statistics(days_back, alert_type, days_back_start): the query,
\* the two list calls with maxResults=1 for resultSizeEstimate, the counts;
\* zeros when a call raises
GetAlertStatistics ==
    /\ fstep = "start"
    /\ ~IsFetch
    /\ query' = StatisticsQuery(fargs.alert_type, fargs.days_back,
                                fargs.days_back_start, now)
    /\ LET CountRequest(q) ==
               [userId |-> "me", q |-> q, maxResults |-> 1, pageToken |-> <<>>]
       IN  \E response \in ListResponses(mailbox, CountRequest(query')) :
              /\ calls' = <<[request |-> CountRequest(query'), collected |-> 0,
                             response |-> response]>>
                          \o (IF response.error THEN <<>>
                              ELSE <<[request |->
                                          CountRequest(query' \o <<" ","i","s",":","u","n","r","e","a","d">>),
                                      collected |-> 0, response |-> response]>>)
              /\ fresult' = IF response.error
                            THEN [total |-> 0, unread |-> 0, read |-> 0]
                            ELSE [total |-> mailbox.size,
                                  unread |-> mailbox.unread,
                                  read |-> mailbox.size - mailbox.unread]
    /\ fstep' = "done"
    /\ UNCHANGED <<fargs, now, mailbox, messages, page_token, iterations,
                   uvars, evars, lvars, avars>>

NextFetch ==
    \/ BuildQuery
    \/ ListPage
    \/ ParseMessages
    \/ GetAlertStatistics

SpecFetch == InitFetch /\ [][NextFetch]_vars

-----------------------------------------------------------------------------
(* llm_categorizer.py: LLMCategorizer.categorize_alert                     *)

\* CategoryDecision(...).model_dump(), the fields the analyzer reads
CategoryDecision(is_relevant, category, articles_, relevant, total) ==
    [is_relevant |-> is_relevant, category |-> category, articles |-> articles_,
     relevant_article_count |-> relevant, total_article_count |-> total]

\* ArticleAnalysis(...)
ArticleAnalysis(title, is_relevant) == [title |-> title, is_relevant |-> is_relevant]

\* _parse_response(response_text) on a text that json.loads accepts as the
\* dictionary data: the counts are those of the articles unless data gives them,
\* is_relevant is 'some article is relevant' unless data gives it
ParseResponse(data) ==
    LET articles_data == Get(data, "articles", <<>>)
        articles_ == [k \in 1..Len(articles_data) |->
                        ArticleAnalysis(Get(articles_data[k], "title", ""),
                                        Get(articles_data[k], "is_relevant", FALSE))]
        total_count == Len(articles_)
        relevant_count ==
            Cardinality({k \in 1..Len(articles_) : articles_[k].is_relevant})
    IN  CategoryDecision(Get(data, "is_relevant", relevant_count > 0),
                         Get(data, "category", "Unknown"),
                         articles_,
                         Get(data, "relevant_article_count", relevant_count),
                         Get(data, "total_article_count", total_count))

\* categorize_alert(alert_data): the LLM call raises, or answers a text that
\* is no JSON, or answers JSON
categorize_alert(response) ==
    IF response.kind = "api_error"
    THEN CategoryDecision(FALSE, "error", <<>>, 0, 0)
    ELSE IF response.kind = "not_json"
    THEN CategoryDecision(FALSE, "parse_error", <<>>, 0, 0)
    ELSE ParseResponse(response.data)

-----------------------------------------------------------------------------
(* analyze_scholar_alerts.py: ScholarAlertAnalyzer                         *)

\* relevant_count = sum(1 for r in results if r['decision']['is_relevant'])
RelevantCount(results) ==
    Cardinality({k \in 1..Len(results) : results[k].decision.is_relevant})

\* analyze(), from the alerts fetched on: without alerts the short dictionary
\* of the early return, else one result per alert and the counts
analyze(alerts, responses) ==
    IF alerts = <<>>
    THEN [total_alerts |-> 0, relevant_alerts |-> 0, results |-> <<>>]
    ELSE LET results == [k \in 1..Len(alerts) |->
                            [alert |-> alerts[k],
                             decision |-> categorize_alert(responses[k])]]
         IN  [configuration |-> [days_back |-> 7],
              total_alerts |-> Len(alerts),
              relevant_alerts |-> RelevantCount(results),
              results |-> results]

\* _is_result_relevant(result)
IsResultRelevant(r) ==
    LET decision == Get(r, "decision", EmptyDict)
    IN  Get(decision, "is_relevant", FALSE)
            /\ Get(decision, "relevant_article_count", 0) > 0

\* the heading of one listed alert
Heading(i, r) == [number |-> i, alert_query |-> r.alert.alert_query]

\* generate_report(analysis_result, output_format): the JSON dump, or the
\* markdown report with its summary lines, the alerts under 'Relevant
\* Alerts' and those under 'Non-Relevant Alerts'; the markdown header reads
\* analysis_result['configuration'], which the early return of analyze lacks
generate_report(analysis, format) ==
    IF format = "json" THEN Return([kind |-> "json", dump |-> analysis])
    ELSE IF "configuration" \notin DOMAIN analysis THEN Raised("KeyError")
    ELSE LET IsResultNotRelevant(r) == ~IsResultRelevant(r)
             relevant_results == SelectSeq(analysis.results, IsResultRelevant)
             non_relevant_results ==
                 SelectSeq(analysis.results, IsResultNotRelevant)
         IN  Return([kind |-> "markdown",
                     alerts_processed |-> analysis.total_alerts,
                     relevant_line |-> analysis.relevant_alerts,
                     relevant |-> [i \in 1..Len(relevant_results) |->
                                      Heading(i, relevant_results[i])],
                     non_relevant |-> [i \in 1..Len(non_relevant_results) |->
                                          Heading(i, non_relevant_results[i])]])

-----------------------------------------------------------------------------
(* analyze() followed by generate_report(), as main calls them              *)

MaxAlerts == 2    \* alerts fetched for one analysis, at most

\* the articles of an LLM answer: one relevant, one not
Relevant1 == [title |-> "Paper 1", is_relevant |-> TRUE]
NotRelevant2 == [title |-> "Paper 2", is_relevant |-> FALSE]

\* what the LLM call may give for one alert
Responses == {
    [kind |-> "api_error"],
    [kind |-> "not_json"],
    [kind |-> "json",
     data |-> [is_relevant |-> TRUE, category |-> "ML",
               articles |-> <<Relevant1, NotRelevant2>>,
               relevant_article_count |-> 1, total_article_count |-> 2]],
    [kind |-> "json",
     data |-> [is_relevant |-> FALSE, category |-> "Other",
               articles |-> <<NotRelevant2>>,
               relevant_article_count |-> 0, total_article_count |-> 1]],
    [kind |-> "json",
     data |-> [category |-> "ML", articles |-> <<Relevant1>>]],
    [kind |-> "json",
     data |-> [is_relevant |-> TRUE, category |-> "ML"]],
    [kind |-> "json",
     data |-> [is_relevant |-> TRUE, category |-> "ML",
               articles |-> <<NotRelevant2>>,
               relevant_article_count |-> 0, total_article_count |-> 1]] }

AlertQueries == <<"machine learning", "mineral exploration", "geophysics">>

InitAnalyze ==
    /\ \E n \in 0..MaxAlerts :
           /\ fetched = [k \in 1..n |-> [alert_query |-> AlertQueries[k]]]
           /\ llm \in [1..n -> Responses]
    /\ output_format \in {"markdown", "json"}
    /\ astep = "start"
    /\ analysis_result = <<>> /\ report = <<>>
    /\ UrlIdle
    /\ ExtractIdle
    /\ ListIdle
    /\ FetchIdle

\* results = analyzer.analyze()
CallAnalyze ==
    /\ astep = "start"
    /\ analysis_result' = analyze(fetched, llm)
    /\ astep' = "analyzed"
    /\ UNCHANGED <<fetched, llm, output_format, report, uvars, evars, lvars, fvars>>

\* report = analyzer.generate_report(results, output_format=args.format)
CallGenerateReport ==
    /\ astep = "analyzed"
    /\ report' = generate_report(analysis_result, output_format)
    /\ astep' = "reported"
    /\ UNCHANGED <<fetched, llm, output_format, analysis_result, uvars, evars, lvars, fvars>>

NextAnalyze ==
    \/ CallAnalyze
    \/ CallGenerateReport

SpecAnalyze == InitAnalyze /\ [][NextAnalyze]_vars

-----------------------------------------------------------------------------
(* Properties of url_utils.py, checked under SpecUrl                       *)

Extracted == ustep \in {"resolved", "filtered", "twice"}

\* the outermost wrapper of the request, when there is one
Outer == Wrappers[req.wraps[1]]

\* the URL the outermost wrapper carries
Carried == Build(Tail(req.wraps), req.dest)

\* the string holds one of the two substrings the redirect guard looks for
HoldsRedirectPattern(s) ==
    Contains(s, <<"g","o","o","g","l","e",".","c","o","m","/","u","r","l">>) \/ Contains(s, <<"s","c","h","o","l","a","r",".","g","o","o","g","l","e">>)

C2_EncodedDestinationReturned ==
    (/\ Extracted
     /\ req.wraps # <<>>
     /\ Outer.enc
     /\ Outer.key = <<"u","r","l","=">>) => resolved = Carried

\* the text of a URL before its query and fragment
BeforeQuery(u) == SubSeq(u, 1, RunEnd(u, 1, {"?", "#"}))

\* C3: a URL whose host and path are not those of a redirect (the Google /url
\* path, the Scholar scholar_url / scholar path) is returned unchanged,
\* whatever its query string holds.
C3_NonRedirectUnchanged ==
    (Extracted /\ ~HoldsRedirectPattern(BeforeQuery(url))) => resolved = url

W3Urls == {
    <<"h","t","t","p",":","/","/","w","w","w",".","w","3",".","o","r","g","/","1","9","9","9","/","x","h","t","m","l">>,
    <<"h","t","t","p","s",":","/","/","w","w","w",".","w","3",".","o","r","g","/","2","0","0","0","/","s","v","g">>,
    <<"h","t","t","p","s",":","/","/","w","3",".","o","r","g","/","s","t","a","n","d","a","r","d","s","/">> }

OrdinaryUrls == {
    <<"h","t","t","p","s",":","/","/","n","a","t","u","r","e",".","c","o","m","/","a","r","t","i","c","l","e","s","/","s","c","i","e","n","c","e","-","1","2","3">>,
    <<"h","t","t","p","s",":","/","/","s","c","i","e","n","c","e","d","i","r","e","c","t",".","c","o","m","/","a","r","t","i","c","l","e","/","x","y","z">>,
    <<"h","t","t","p","s",":","/","/","e","x","a","m","p","l","e",".","c","o","m","/","a","r","t","i","c","l","e">>,
    <<"h","t","t","p","s",":","/","/","a","r","x","i","v",".","o","r","g","/","a","b","s","/","2","3","1","2",".","1","2","3","4","5">> }

\* C5: with the default list is_excluded_domain is true for the W3C namespace
\* URLs and false for ordinary article URLs.
C5_W3Excluded ==
    exclDone => /\ (url \in W3Urls => excl)
                /\ (url \in OrdinaryUrls => ~excl)

DefaultTokens == { <<"g","o","o","g","l","e">>, <<"f","a","c","e","b","o","o","k">>, <<"t","w","i","t","t","e","r">>, <<"l","i","n","k","e","d","i","n">>, <<"y","o","u","t","u","b","e">> }

\* the two characters are the same letter in either case, or the same character
SameIgnoringCase(a, b) ==
    \/ a = b
    \/ \E k \in 1..26 : {a, b} = {UpperCase[k], LowerCase[k]}

\* token t occurs in s at some position, letters compared without their case
OccursIgnoringCase(s, t) ==
    \E i \in 1..Len(s) :
        /\ i + Len(t) - 1 <= Len(s)
        /\ \A k \in 1..Len(t) : SameIgnoringCase(s[i + k - 1], t[k])

ParamNames(u) ==
    LET fields == IF QueryOf(u) = <<>> THEN <<>> ELSE Split(QueryOf(u), <<"&">>)
    IN  {unquote(SubSeq(fields[k], 1, RunEnd(fields[k], 1, {"="}))) :
            k \in 1..Len(fields)}

\* C11: a URL of a redirect host (the Google /url path, Scholar) that has no
\* url parameter at all is returned unchanged by extract_actual_url, and
\* is_excluded_domain of the result is true.
C11_NoUrlParamUnchangedAndExcluded ==
    (/\ exclResDone
     /\ HoldsRedirectPattern(BeforeQuery(url))
     /\ <<"u","r","l">> \notin ParamNames(url)) => (resolved = url /\ exclRes)

\* a '%' of the string is not followed by two hex digits
MalformedEscape(s) ==
    \E i \in 1..Len(s) :
        /\ s[i] = "%"
        /\ ~(i + 2 <= Len(s) /\ IsHex(s[i + 1]) /\ IsHex(s[i + 2]))

\* the text of the url= value as the outermost wrapper carries it
RawValue == SubSeq(Carried, 1, RunEnd(Carried, 1, {"&"}))

\* C14: when the url= value of a redirect URL holds malformed
\* percent-encoding, extract_actual_url returns the original input unchanged.
C14_MalformedEscapeReturnsInput ==
    (/\ Extracted
     /\ req.wraps # <<>>
     /\ Outer.key = <<"u","r","l","=">>
     /\ ~Outer.enc
     /\ MalformedEscape(RawValue)) => resolved = url

\* the field of a query string is the url key with its value
IsUrlField(f) == StartsWith(f, <<"u","r","l","=">>)

\* structured parsing of the query string: the fields between the '&', each
\* split at its first '=', the values of the url key percent-decoded
StructuredUrl(u) ==
    LET hits == SelectSeq(Split(QueryOf(u), <<"&">>), IsUrlField)
    IN  [k \in 1..Len(hits) |-> unquote(From(hits[k], Len(<<"u","r","l","=">>) + 1))]

ScannedUrl(u) ==
    LET rest == From(u, Find(u, <<"u","r","l","=">>, 1) + Len(<<"u","r","l","=">>))
        cuts == {Find(rest, google_params[k], 1) : k \in 1..Len(google_params)} \ {0}
    IN  unquote(IF cuts = {} THEN rest ELSE SubSeq(rest, 1, SetMin(cuts) - 1))

-----------------------------------------------------------------------------
(* Properties of _extract_alert_info, checked under SpecExtract            *)

Returned == pc = "done"

\* the url fields of a list of articles, in order
UrlsOf(as) == [k \in 1..Len(as) |-> as[k].url]

\* the anchors of the body with their href resolved, in document order
ResolvedAnchors ==
    LET ms == LinkFindall(body)
    IN  [k \in 1..Len(ms) |-> extract_actual_url(ms[k].href)]

\* the resolved destination is one the anchor loop is meant to keep
Kept(u) ==
    /\ StartsWith(u, <<"h","t","t","p">>)
    /\ \A t \in DefaultTokens : ~OccursIgnoringCase(u, t)

IsHttpUrl(u) == StartsWith(u, <<"h","t","t","p",":","/","/">>) \/ StartsWith(u, <<"h","t","t","p","s",":","/","/">>)

\* C4: every article returned by _extract_alert_info, from the anchor loop or
\* from the bare-URL fallback, has a url that extract_actual_url leaves
\* unchanged and that is_excluded_domain does not exclude.
C4_ArticlesResolvedAndFiltered ==
    Returned =>
        \A k \in 1..Len(result.articles) :
            LET u == result.articles[k].url
            IN  /\ extract_actual_url(u) = u
                /\ ~is_excluded_domain(u)
                /\ \A t \in DefaultTokens : ~OccursIgnoringCase(u, t)

\* C4 witness: the call returned an article whose url is the resolved
\* destination of a redirect-wrapped href, while another anchor of the same
\* body was left out.
C4_Witness ==
    /\ Returned
    /\ Len(matches) > Len(result.articles)
    /\ \E k \in 1..Len(result.articles) :
           /\ origin[k].loop = "anchor"
           /\ matches[origin[k].index].href # result.articles[k].url
           /\ IsRedirectUrl(matches[origin[k].index].href)

\* C6: for a body that holds anchor tags with an href, the returned articles
\* are, in document order and with repetitions, exactly the anchors whose
\* resolved href starts with http and is not excluded.
C6_OneArticlePerKeptAnchor ==
    (Returned /\ LinkFindall(body) # <<>>) =>
        UrlsOf(result.articles) = SelectSeq(ResolvedAnchors, Kept)

\* C7: when the body holds anchor-tag markup, every returned article comes
\* from an anchor tag; the bare-URL scan adds none.
C7_FallbackOnlyWithoutAnchors ==
    (Returned /\ Contains(body, <<"<","a"," ","h","r","e","f","=">>)) =>
        \A k \in 1..Len(origin) : origin[k].loop = "anchor"

\* C8: every returned article has a non-empty url that starts with http:// or
\* https://, whichever loop appended it.
C8_UrlHasHttpScheme ==
    Returned =>
        \A k \in 1..Len(result.articles) :
            /\ result.articles[k].url # <<>>
            /\ IsHttpUrl(result.articles[k].url)

\* C9: the title of an article kept from an anchor is the text of the anchor's
\* <b> element when it has one, otherwise the inner content without its tags,
\* trimmed; and it is non-empty whenever the anchor holds visible text.
C9_TitleFromAnchorText ==
    Returned =>
        \A k \in 1..Len(result.articles) :
            origin[k].loop = "anchor" =>
                LET content == matches[origin[k].index].content
                    visible == Strip(StripTags(content))
                    title == result.articles[k].title
                IN  /\ title = IF TitleSearch(content).found
                               THEN Strip(TitleSearch(content).group)
                               ELSE visible
                    /\ visible # <<>> => title # <<>>

\* the prefix of the channel's subject lines
ChannelPrefix == IF alert_type = "scholar" THEN <<"S","c","h","o","l","a","r"," ","A","l","e","r","t",":"," ">>
                 ELSE <<"G","o","o","g","l","e"," ","A","l","e","r","t"," ","-"," ">>

\* C13: alert_query is the subject without the channel's prefix when the
\* subject begins with that prefix, and the subject verbatim in every other
\* case.
C13_AlertQueryPrefixStripped ==
    Returned =>
        result.alert_query =
            IF StartsWith(subject, ChannelPrefix)
            THEN From(subject, Len(ChannelPrefix) + 1)
            ELSE subject

\* the bare URL tokens of the body, resolved, in order of appearance
ResolvedTokens ==
    LET us == UrlFindall(body)
    IN  [k \in 1..Len(us) |-> extract_actual_url(us[k])]

NoDefaultToken(u) == \A t \in DefaultTokens : ~OccursIgnoringCase(u, t)

\* C12: for a body without anchor markup the returned articles are, in order
\* of appearance, one {title: '', url: resolved URL, snippet: ''} for each bare
\* URL token whose resolved URL is not excluded, and none for the others.
C12_OneArticlePerBareUrl ==
    (Returned /\ ~Contains(body, <<"<","a">>)) =>
        LET kept == SelectSeq(ResolvedTokens, NoDefaultToken)
        IN  result.articles =
                [k \in 1..Len(kept) |->
                    [title |-> <<>>, url |-> kept[k], snippet |-> <<>>]]

\* C12 witness: a body without anchors holds two bare URLs, one resolving to
\* an excluded domain and one not, and one article was returned.
C12_Witness ==
    /\ Returned
    /\ ~Contains(body, <<"<","a">>)
    /\ Len(urls) = 2
    /\ Len(result.articles) = 1
    /\ origin[1].loop = "bare"
    /\ \E k \in 1..2 : ~NoDefaultToken(ResolvedTokens[k])

-----------------------------------------------------------------------------
(* Properties of list_articles.py, checked under SpecList                  *)

\* the per-article list of an entry's decision, the raw articles of its alert
Annotated(entry) == Get(Get(entry, "decision", EmptyDict), "articles", <<>>)
RawOf(entry) == Get(Get(entry, "alert", EmptyDict), "articles", <<>>)

\* how many Articles the entry is to yield
Yield(entry) ==
    IF Annotated(entry) # <<>> THEN Len(Annotated(entry)) ELSE Len(RawOf(entry))

\* how many Articles the first k entries are to yield
RECURSIVE YieldUpTo(_, _)
YieldUpTo(results, k) ==
    IF k = 0 THEN 0 ELSE YieldUpTo(results, k - 1) + Yield(results[k])

\* the parsed list holds, entry after entry, what each shape is to yield; a
\* key the report leaves out reads as the default of its .get()
AsDocumented(file, parsed, label) ==
    LET results == Report(file).results
        n == Len(results)
    IN  /\ parsed.outcome = "returned"
        /\ Len(parsed.value) = YieldUpTo(results, n)
        /\ \A k \in 1..n : \A j \in 1..Yield(results[k]) :
              LET a == parsed.value[YieldUpTo(results, k - 1) + j]
                  alert == Get(results[k], "alert", EmptyDict)
                  decision == Get(results[k], "decision", EmptyDict)
              IN  /\ a.date = Get(alert, "date", <<"U","n","k","n","o","w","n"," ","D","a","t","e">>)
                  /\ a.alert_query = Get(alert, "alert_query", "Unknown Query")
                  /\ a.source = label
                  /\ IF Annotated(results[k]) # <<>>
                     THEN LET own == Annotated(results[k])[j]
                          IN  /\ a.title = Get(own, "title", "No Title")
                              /\ a.url = Get(own, "url", "")
                              /\ a.summary = Get(own, "summary", "")
                              /\ a.is_relevant = Get(own, "is_relevant", FALSE)
                              /\ a.relevance_reasoning =
                                    Get(own, "relevance_reasoning", "")
                     ELSE LET raw == RawOf(results[k])[j]
                          IN  /\ a.title = Get(raw, "title", "No Title")
                              /\ a.url = Get(raw, "url", "")
                              /\ a.summary = Get(raw, "snippet", "")
                              /\ a.is_relevant =
                                    Get(decision, "is_relevant", FALSE)
                              /\ a.relevance_reasoning =
                                    Get(decision, "reasoning", "")

\* C15: parse_report_json emits, entry by entry in document order, one
\* Article per annotated article with the annotation's own fields when the
\* decision has a non-empty per-article list, else one per raw article with
\* summary = snippet and the alert-level verdict and reasoning; each Article
\* carries the alert's date and query and the source label of the call.
C15_ArticlesPerEntryShape ==
    /\ (lstep # "start" /\ google_file.kind = "report") =>
            AsDocumented(google_file, google_parsed, "google_alerts")
    /\ (lstep \notin {"start", "google"} /\ scholar_file.kind = "report") =>
            AsDocumented(scholar_file, scholar_parsed, "scholar_alerts")

\* C15 witness: a report with an entry of each shape, the legacy one with the
\* opposite alert-level verdict of an annotated article, was parsed into the
\* articles of both.
C15_Witness ==
    /\ lstep = "google"
    /\ google_file = File("report", <<1, 3>>)
    /\ Len(google_parsed.value) = 4
    /\ google_parsed.value[1].relevance_reasoning = "on topic"
    /\ google_parsed.value[3].summary = "raw d"
    /\ ~google_parsed.value[3].is_relevant

\* format_article_list was called on the parsed articles
Formatted == lstep \in {"formatted", "exited"}

\* what tells one emitted article from another, in a dumped dictionary as in
\* a printed block
Id(x) == <<x.title, x.url, x.date, x.alert_query>>

\* how many items of the list are the article x
Count(list, x) == Cardinality({i \in 1..Len(list) : Id(list[i]) = x})

\* the articles that pass the relevance filter of the call
PassFilter ==
    IF args.show_all THEN Parsed ELSE SelectSeq(Parsed, IsRelevant)

\* every article of the list wanted is emitted as often as it is in the list,
\* and nothing else is emitted
EmitsExactly(wanted) ==
    /\ Len(formatted.value.items) = Len(wanted)
    /\ \A i \in 1..Len(wanted) :
          Count(formatted.value.items, Id(wanted[i])) = Count(wanted, Id(wanted[i]))

\* C16: whatever date strings the articles carry (of an accepted format, with
\* or without a timezone offset, or of none), format_article_list does not
\* raise and emits every article that passes the relevance filter exactly once.
C16_NoRaiseNoDropOnDates ==
    Formatted =>
        /\ formatted.outcome = "returned"
        /\ EmitsExactly(PassFilter)

\* the call returned a list of articles, not the 'No articles found.' message
Listed == Formatted /\ formatted.outcome = "returned"
              /\ formatted.value.kind # "message"

\* the identities of the articles of the list whose parsed date is key
WithKey(list, key) ==
    LET at == {i \in 1..Len(list) : Key(list[i]) = key}
        Nth(p) == CHOOSE i \in at : Cardinality({j \in at : j < i}) = p - 1
    IN  [p \in 1..Cardinality(at) |-> Id(list[Nth(p)])]

\* C17: in the output of format_article_list no article comes ahead of one
\* with a later parsed date, a date of no accepted format counting as the
\* epoch, and the articles of one parsed date keep the order they had in the
\* input.
C17_NewestFirstStable ==
    Listed =>
        LET items == formatted.value.items
        IN  /\ \A i, j \in 1..Len(items) :
                  i < j => ~Earlier(Key(items[i]), Key(items[j]))
            /\ \A d \in EntryDates :
                  WithKey(items, sort_keys[d]) = WithKey(PassFilter, sort_keys[d])

\* C17 witness: four articles of three parsed dates, the one without an
\* accepted date first in the input, were emitted newest first with the
\* undated one last and the two of one date in their input order.
C17_Witness ==
    /\ Listed
    /\ google_file = File("report", <<6, 1>>)
    /\ scholar_file = File("report", <<5>>)
    /\ args.show_all
    /\ [i \in 1..4 |-> formatted.value.items[i].title] = <<"G", "A", "B", "H">>
    /\ Key(Parsed[1]) = Epoch

\* C18: with format_type 'json', format_article_list returns, for a list of
\* any length and either value of show_irrelevant, a JSON array with one
\* object {title, url, summary, date, source, alert_query, is_relevant,
\* relevance_reasoning} for each emitted article.
C18_JsonArrayOfArticles ==
    (Formatted /\ args.format = "json") =>
        /\ formatted.outcome = "returned"
        /\ formatted.value.kind = "json"
        /\ EmitsExactly(PassFilter)
        /\ \A i \in 1..Len(formatted.value.items) :
              /\ DOMAIN formatted.value.items[i] =
                    {"title", "url", "summary", "date", "source", "alert_query",
                     "is_relevant", "relevance_reasoning"}
              /\ \E k \in 1..Len(PassFilter) :
                    formatted.value.items[i] = PassFilter[k]

\* the file is missing or what it holds is no JSON text
Unreadable(file) == file.kind \in {"missing", "invalid_json", "not_utf8"}

\* main was asked for both channels
BothChannels == ~args.google_alerts_only /\ ~args.scholar_alerts_only

\* main ended as format_article_list does on the articles of the one channel
\* that could be read, and what it wrote is what that call returns
EmittedByMain ==
    /\ exited.outcome = formatted.outcome
    /\ exited.outcome = "returned" =>
          /\ exited.value.status = 0
          /\ IF ~args.separate THEN exited.value.combined = <<formatted.value>>
             ELSE IF Unreadable(google_file)
                  THEN exited.value.scholar = <<formatted.value>>
                  ELSE exited.value.google = <<formatted.value>>

\* C19: parse_report_json returns an empty list and does not raise when the
\* file is missing or its content is not valid JSON, and in main such a report
\* of one channel adds no article while the articles of the other channel are
\* still aggregated and emitted.
C19_UnreadableReportIsEmpty ==
    /\ (lstep # "start" /\ Unreadable(google_file)) =>
            google_parsed = Return(<<>>)
    /\ (lstep \notin {"start", "google"} /\ Unreadable(scholar_file)) =>
            scholar_parsed = Return(<<>>)
    /\ (/\ lstep = "exited" /\ BothChannels
        /\ Unreadable(google_file) # Unreadable(scholar_file)
        /\ Parsed # <<>>) => EmittedByMain

\* C20: without show_irrelevant format_article_list emits exactly the input
\* articles whose is_relevant is true, with it every input article, and the
\* 'Total Articles' line it prints gives the number of articles emitted.
C20_FilterAndTotal ==
    Formatted =>
        /\ formatted.outcome = "returned"
        /\ IF args.show_all THEN EmitsExactly(Parsed)
           ELSE /\ EmitsExactly(SelectSeq(Parsed, IsRelevant))
                /\ \A i \in 1..Len(Parsed) :
                      ~Parsed[i].is_relevant =>
                          Count(formatted.value.items, Id(Parsed[i])) =
                              Count(SelectSeq(Parsed, IsRelevant), Id(Parsed[i]))
        /\ formatted.value.kind \in {"text", "markdown"} =>
              formatted.value.total = <<Len(formatted.value.items)>>

\* C21: after format_article_list(articles, fmt, show_irrelevant) returns, the
\* list the caller passed holds the same articles in the same order as before
\* the call, for both values of show_irrelevant and every format.
C21_InputListUntouched ==
    (Formatted /\ formatted.outcome = "returned") =>
        passed_articles = InOrder(Parsed)

-----------------------------------------------------------------------------
(* Properties of analyze_scholar_alerts.py, checked under SpecAnalyze      *)

\* the markdown report was generated
Reported == astep = "reported" /\ report.outcome = "returned"
                /\ report.value.kind = "markdown"

\* C30: for every list of categorization decisions, relevant_alerts as
\* analyze counts it is the number of results generate_report lists under
\* 'Relevant Alerts', and total_alerts less relevant_alerts the number it
\* lists under 'Non-Relevant Alerts'.
C30_CountMatchesReport ==
    Reported =>
        /\ analysis_result.relevant_alerts = Len(report.value.relevant)
        /\ analysis_result.total_alerts - analysis_result.relevant_alerts
               = Len(report.value.non_relevant)

-----------------------------------------------------------------------------
(* Properties of gmail_fetcher.py, checked under SpecFetch                  *)

\* a fetch method has returned
FetchReturned == IsFetch /\ fstep = "done"

\* a fetch method has built its query
QueryBuilt == IsFetch /\ fstep # "start"

\* the sender the called method searches for
SenderOf(a) == Sender(KindOf(a))

\* every message of the mailbox can be retrieved and parsed
AllParse == (mailbox.get_fails \cup mailbox.parse_fails) \cap (1..mailbox.size) = {}

\* no list request of the call has failed
NoHttpError == \A i \in 1..Len(calls) : ~calls[i].response.error

\* C22: when N messages match, the server fills every page to maxResults and
\* gives a nextPageToken exactly when messages remain, and every message
\* parses, a fetch returns exactly min(N, max_results) alerts, those of the
\* first messages.
C22_FullPagesGiveMin ==
    (FetchReturned /\ mailbox.paging = "full" /\ AllParse) =>
        /\ Len(fresult) = Min(mailbox.size, fargs.max_results)
        /\ \A k \in 1..Len(fresult) : fresult[k].message_id = k

\* C22: 1200 requested of 1700 gives 1200 by pages of 500, 500 and 200
C22_Witness ==
    /\ FetchReturned /\ mailbox.paging = "full" /\ AllParse
    /\ fargs.max_results = 1200 /\ mailbox.size = 1700
    /\ Len(calls) = 3
    /\ \A k \in 1..3 : calls[k].response.count = <<500, 500, 200>>[k]
    /\ Len(fresult) = 1200

\* C23: the first list request of a fetch carries no pageToken, every later
\* one carries the nextPageToken of the response just before it, and all
\* carry the same query.
C23_TokensChain ==
    IsFetch =>
        \A i \in 1..Len(calls) :
            /\ calls[i].request.q = calls[1].request.q
            /\ calls[i].request.pageToken =
                   IF i = 1 THEN <<>> ELSE calls[i - 1].response.nextPageToken

\* C23: a third request that carries the token of the second response
C23_Witness ==
    /\ IsFetch
    /\ Len(calls) >= 3
    /\ calls[2].response.nextPageToken # <<>>
    /\ calls[3].request.pageToken = calls[2].response.nextPageToken
    /\ calls[3].request.pageToken # calls[2].request.pageToken

\* C24: the query of a fetch has a before: clause exactly when days_back_start
\* is given and greater than days_back; then after: is the date
\* days_back_start days ago, before: the date days_back days ago, and the
\* after: date is strictly earlier than the before: date; otherwise the query
\* has only after: the date days_back days ago.
C24_DateRangeQuery ==
    QueryBuilt =>
        IF fargs.days_back_start # <<>>
           /\ fargs.days_back_start[1] > fargs.days_back[1]
        THEN \E t1 \in {now[1], now[2]}, t2 \in {now[1], now[2]} :
                /\ query = SenderOf(fargs)
                           \o <<" ","a","f","t","e","r",":">> \o DateStr(t1, fargs.days_back_start[1])
                           \o <<" ","b","e","f","o","r","e",":">> \o DateStr(t2, fargs.days_back[1])
                /\ t1 - fargs.days_back_start[1] < t2 - fargs.days_back[1]
        ELSE query = SenderOf(fargs)
                     \o <<" ","a","f","t","e","r",":">> \o DateStr(now[1], fargs.days_back[1])

\* C25: for days_back_start > days_back the query of get_alert_statistics
\* selects the window the fetch methods use for the same arguments: after:
\* the date days_back_start days ago, before: the date days_back days ago.
C25_StatisticsWindow ==
    (/\ ~IsFetch /\ fstep = "done"
     /\ fargs.days_back # <<>> /\ fargs.days_back_start # <<>>
     /\ fargs.days_back_start[1] > fargs.days_back[1]) =>
        query = FetchQuery(SenderOf(fargs), fargs.days_back[1],
                           fargs.days_back_start, now)

\* C27: as long as fewer than max_results messages are collected and the last
\* response was non-empty and carried a nextPageToken, the next step of a
\* fetch is another list request.
C27_PagingContinues ==
    [][(/\ IsFetch /\ calls # <<>>
        /\ ~calls[Len(calls)].response.error
        /\ calls[Len(calls)].response.count > 0
        /\ calls[Len(calls)].response.nextPageToken # <<>>
        /\ Len(messages) < fargs.max_results)
       => Len(calls') = Len(calls) + 1]_vars

\* C28: a fetch issues at most (max_results // 500) + 2 list requests, and
\* each asks for min(max_results - collected, 500) messages, between 1 and 500.
C28_BoundedRequests ==
    IsFetch =>
        /\ Len(calls) <= (fargs.max_results \div 500) + 2
        /\ \A i \in 1..Len(calls) :
              /\ calls[i].request.maxResults =
                     Min(fargs.max_results - calls[i].collected, 500)
              /\ calls[i].request.maxResults \in 1..500

\* C28: the limit is reached while the server still offers a next page
C28_Witness ==
    /\ FetchReturned
    /\ Len(calls) = (fargs.max_results \div 500) + 2
    /\ calls[Len(calls)].response.count > 0
    /\ calls[Len(calls)].response.nextPageToken # <<>>
    /\ Len(messages) < fargs.max_results

\* the listed message can be retrieved and parsed
Parses(id) == id \notin mailbox.get_fails \cup mailbox.parse_fails

\* C29: a message that cannot be retrieved or parsed is skipped: the fetch
\* returns the alerts of all other listed messages, in the order of the list,
\* each with the date and the message_id of its message.
C29_FailuresSkipped ==
    (FetchReturned /\ NoHttpError) =>
        /\ [p \in 1..Len(fresult) |-> fresult[p].message_id]
               = SelectSeq(messages, Parses)
        /\ \A p \in 1..Len(fresult) :
              fresult[p].date = <<"Date", fresult[p].message_id>>

\* C29: three messages of 501 fail and the 498 others are returned
C29_Witness ==
    /\ FetchReturned /\ NoHttpError
    /\ mailbox.get_fails = {1} /\ mailbox.parse_fails = {3, 500}
    /\ Len(messages) = 501
    /\ Len(fresult) = 498
    /\ fresult[1].message_id = 2
    /\ fresult[498].message_id = 501

====
